---------------------------- MODULE Spec2Model ----------------------------
(***************************************************************************)
(* Model of cgv/model/igrf/igrf_model.py (class igrfModel): the embedded   *)
(* Gauss-coefficient table, the per-epoch working coefficients chosen by   *)
(* set_year, and the field queries built on them.                          *)
(*                                                                         *)
(* Number representation.  The program computes in double precision; the   *)
(* model computes in integers:                                             *)
(*   - an epoch is an integer count of tenths of a year (2011.5 = 20115);  *)
(*   - a coefficient is an integer count of 0.001 nT, so every tabulated   *)
(*     value (at most two decimals) and every interpolation at a multiple  *)
(*     of half a year is exact;                                            *)
(*   - an entry of schmidt_norm is an integer count of 1/NormScale, the    *)
(*     square root taken as an integer square root;                        *)
(*   - an angle is an integer count of 1e-6 rad, np.pi being 3141592.      *)
(* The arrays are (MaxN+2) x (MaxN+2), as the program's are 15 x 15 for    *)
(* its 13 tabulated degrees: index 0 and index MaxN+1 stay zero.           *)
(***************************************************************************)
EXTENDS Integers, Sequences, FiniteSets, TLC

VARIABLES
    coefficients,   \* self.coefficients: epoch key -> [g, h], each g[m][n]
    year,           \* self.year
    gcoeff,         \* self.gcoeff
    hcoeff,         \* self.hcoeff
    schmidt_norm,   \* igrfModel.schmidt_norm (class attribute)
    result,         \* the last call: its name, arguments, outcome and value
    nset,           \* number of set_year calls made after construction
    fresh,          \* the table was as read_coefficients left it when the
                    \* last set_year call (the constructor's included) began
    heap,           \* the arrays of the process: address -> array
    objs,           \* the igrfModel instances: year, and the addresses bound
                    \* to self.gcoeff and self.hcoeff
    call,           \* the call last made or in flight on an instance
    reader          \* a second thread inside spherical(): its position and
                    \* the arrays it holds

vars ==
    <<coefficients, year, gcoeff, hcoeff, schmidt_norm, result, nset, fresh,
      heap, objs, call, reader>>

\* the state of the process when instances are followed by address
hvars == <<heap, objs, call, reader>>

\* the state of the single instance followed by value
ovars == <<coefficients, year, gcoeff, hcoeff, schmidt_norm, result, nset, fresh>>

-----------------------------------------------------------------------------
(* Bounds of the model *)

\* highest tabulated degree n read from the embedded table
MaxN == 1

\* set_year calls after construction, when field queries are made as well
MaxSetYear == 1

\* set_year calls after construction, when only set_year is called
MaxReconfigure == 3

\* denominator of the fixed-point entries of schmidt_norm
NormScale == 1000

-----------------------------------------------------------------------------
(* Epochs *)

Yr(y) == 10 * y

HalfAfter(y) == 10 * y + 5

\* explicit epochs passed to igrfModel(year) and set_year(year)
EpochInputs ==
    { Yr(1899), Yr(1900), Yr(2000), Yr(2011), HalfAfter(2011), Yr(2016), Yr(2020),
      Yr(2021) }

\* values time.gmtime()[0] can return when year is None
ClockYears == { Yr(2015), Yr(2026) }

-----------------------------------------------------------------------------
(* The embedded table: the 12th-generation coeff string, rows of degree    *)
(* n <= 3; val holds the 24 epoch columns and the trailing SV column.      *)

CoeffRows ==
    <<
      [gh |-> "g", n |-> 1, m |-> 0, val |-> <<-31543000, -31464000, -31354000, -31212000, -31060000, -30926000, -30805000, -30715000, -30654000, -30594000, -30554000, -30500000, -30421000, -30334000, -30220000, -30100000, -29992000, -29873000, -29775000, -29692000, -29619400, -29554630, -29496570, -29442000, 10300>>],
      [gh |-> "g", n |-> 1, m |-> 1, val |-> <<-2298000, -2298000, -2297000, -2306000, -2317000, -2318000, -2316000, -2306000, -2292000, -2285000, -2250000, -2215000, -2169000, -2119000, -2068000, -2013000, -1956000, -1905000, -1848000, -1784000, -1728200, -1669050, -1586420, -1501000, 18100>>],
      [gh |-> "h", n |-> 1, m |-> 1, val |-> <<5922000, 5909000, 5898000, 5875000, 5845000, 5817000, 5808000, 5812000, 5821000, 5810000, 5815000, 5820000, 5791000, 5776000, 5737000, 5675000, 5604000, 5500000, 5406000, 5306000, 5186100, 5077990, 4944260, 4797100, -26600>>],
      [gh |-> "g", n |-> 2, m |-> 0, val |-> <<-677000, -728000, -769000, -802000, -839000, -893000, -951000, -1018000, -1106000, -1244000, -1341000, -1440000, -1555000, -1662000, -1781000, -1902000, -1997000, -2072000, -2131000, -2200000, -2267700, -2337240, -2396060, -2445100, -8700>>],
      [gh |-> "g", n |-> 2, m |-> 1, val |-> <<2905000, 2928000, 2948000, 2956000, 2959000, 2969000, 2980000, 2984000, 2981000, 2990000, 2998000, 3003000, 3002000, 2997000, 3000000, 3010000, 3027000, 3044000, 3059000, 3070000, 3068400, 3047690, 3026340, 3012900, -3300>>],
      [gh |-> "h", n |-> 2, m |-> 1, val |-> <<-1061000, -1086000, -1128000, -1191000, -1259000, -1334000, -1424000, -1520000, -1614000, -1702000, -1810000, -1898000, -1967000, -2016000, -2047000, -2067000, -2129000, -2197000, -2279000, -2366000, -2481600, -2594500, -2708540, -2845600, -27400>>],
      [gh |-> "g", n |-> 2, m |-> 2, val |-> <<924000, 1041000, 1176000, 1309000, 1407000, 1471000, 1517000, 1550000, 1566000, 1578000, 1576000, 1581000, 1590000, 1594000, 1611000, 1632000, 1663000, 1687000, 1686000, 1681000, 1670900, 1657760, 1668170, 1676700, 2100>>],
      [gh |-> "h", n |-> 2, m |-> 2, val |-> <<1121000, 1065000, 1000000, 917000, 823000, 728000, 644000, 586000, 528000, 477000, 381000, 291000, 206000, 114000, 25000, -68000, -200000, -306000, -373000, -413000, -458000, -515430, -575730, -641900, -14100>>],
      [gh |-> "g", n |-> 3, m |-> 0, val |-> <<1022000, 1037000, 1058000, 1084000, 1111000, 1140000, 1172000, 1206000, 1240000, 1282000, 1297000, 1302000, 1302000, 1297000, 1287000, 1276000, 1281000, 1296000, 1314000, 1335000, 1339600, 1336300, 1339850, 1350700, 3400>>],
      [gh |-> "g", n |-> 3, m |-> 1, val |-> <<-1469000, -1494000, -1524000, -1559000, -1600000, -1645000, -1692000, -1740000, -1790000, -1834000, -1889000, -1944000, -1992000, -2038000, -2091000, -2144000, -2180000, -2208000, -2239000, -2267000, -2288000, -2305830, -2326540, -2352300, -5500>>],
      [gh |-> "h", n |-> 3, m |-> 1, val |-> <<-330000, -357000, -389000, -421000, -445000, -462000, -480000, -494000, -499000, -499000, -476000, -462000, -414000, -404000, -366000, -333000, -336000, -310000, -284000, -262000, -227600, -198860, -160400, -115300, 8200>>],
      [gh |-> "g", n |-> 3, m |-> 2, val |-> <<1256000, 1239000, 1223000, 1212000, 1205000, 1202000, 1205000, 1215000, 1232000, 1255000, 1274000, 1288000, 1289000, 1292000, 1278000, 1260000, 1251000, 1247000, 1248000, 1249000, 1252100, 1246390, 1232100, 1225600, -700>>],
      [gh |-> "h", n |-> 3, m |-> 2, val |-> <<3000, 34000, 62000, 84000, 103000, 119000, 133000, 146000, 163000, 186000, 206000, 216000, 224000, 240000, 251000, 262000, 271000, 284000, 293000, 302000, 293400, 269720, 251750, 244900, -400>>],
      [gh |-> "g", n |-> 3, m |-> 3, val |-> <<572000, 635000, 705000, 778000, 839000, 881000, 907000, 918000, 916000, 913000, 896000, 882000, 878000, 856000, 838000, 830000, 833000, 829000, 802000, 759000, 714500, 672510, 633730, 582000, -10100>>],
      [gh |-> "h", n |-> 3, m |-> 3, val |-> <<523000, 480000, 425000, 360000, 293000, 229000, 166000, 101000, 43000, -11000, -46000, -83000, -130000, -165000, -196000, -223000, -252000, -297000, -352000, -427000, -491100, -524720, -537030, -538400, 1800>>]
    >>

\* lines[4].split()[3:] with '2015-20' replaced by '2020.0'
years ==
    [i \in 1..25 |-> Yr(1900 + 5 * (i - 1))]

Dim == MaxN + 2

Idx == 0 .. (Dim - 1)

\* np.zeros([15,15])
mat == [m \in Idx |-> [n \in Idx |-> 0]]

RowsRead == { i \in 1..Len(CoeffRows) : CoeffRows[i].n <= MaxN }

\* a parse that stores the row (n, m) at [n,m] instead of [m,n]
ParsedTransposed(gh, indx) ==
    [m \in Idx |-> [n \in Idx |->
        IF \E i \in RowsRead :
              CoeffRows[i].gh = gh /\ CoeffRows[i].n = m /\ CoeffRows[i].m = n
        THEN LET i == CHOOSE i \in RowsRead :
                        CoeffRows[i].gh = gh /\ CoeffRows[i].n = m /\ CoeffRows[i].m = n
             IN  CoeffRows[i].val[indx]
        ELSE mat[m][n]]]

Parsed(gh, indx) ==
    [m \in Idx |-> [n \in Idx |->
        IF \E i \in RowsRead :
              CoeffRows[i].gh = gh /\ CoeffRows[i].n = n /\ CoeffRows[i].m = m
        THEN LET i == CHOOSE i \in RowsRead :
                        CoeffRows[i].gh = gh /\ CoeffRows[i].n = n /\ CoeffRows[i].m = m
             IN  CoeffRows[i].val[indx]
        ELSE mat[m][n]]]

MatAdd(a, b) == [m \in Idx |-> [n \in Idx |-> a[m][n] + b[m][n]]]

YearKeys == { years[i] : i \in 1..25 }

IndexOf(y) == CHOOSE i \in 1..25 : years[i] = y

read_coefficients ==
    LET c == [y \in YearKeys |->
                 [g |-> Parsed("g", IndexOf(y)), h |-> Parsed("h", IndexOf(y))]]
    IN  [c EXCEPT ![years[25]] =
            [g |-> MatAdd(c[years[25]].g, c[years[24]].g),
             h |-> MatAdd(c[years[25]].h, c[years[24]].h)]]

-----------------------------------------------------------------------------
(* schmidt_norm *)

RECURSIVE factorial(_)
factorial(k) == IF k < 0 THEN 0 ELSE IF k = 0 THEN 1 ELSE k * factorial(k - 1)

ISqrt(x) == CHOOSE s \in 0 .. (2 * NormScale) : s * s <= x /\ x < (s + 1) * (s + 1)

SchmidtNorm ==
    [m \in Idx |-> [n \in Idx |->
        ISqrt((NormScale * NormScale * (IF m = 0 THEN 1 ELSE 2) * factorial(n - m))
                 \div factorial(n + m))
          * (IF m % 2 = 0 THEN 1 ELSE -1)]]

\* one product v * s of a coefficient and a norm entry, rounded down
MulNorm(v, s) == (v \div NormScale) * s + ((v % NormScale) * s) \div NormScale

\* a set_year that leaves the working set un-normalized
TimesNormSkipped(c, norm) == c

\* c *= norm, element-wise
TimesNorm(c, norm) == [m \in Idx |-> [n \in Idx |-> MulNorm(c[m][n], norm[m][n])]]

-----------------------------------------------------------------------------
(* set_year *)

SetMin(S) == CHOOSE x \in S : \A y \in S : x <= y

SetMax(S) == CHOOSE x \in S : \A y \in S : y <= x

Clip(x, lo, hi) == IF x < lo THEN lo ELSE IF x > hi THEN hi ELSE x

\* a clip that takes the last true epoch, not the last key, as the upper bound
ClipYearToLastEpoch(y, yearlist) ==
    Clip(y, SetMin(yearlist), SetMax(yearlist \ {SetMax(yearlist)}))

\* np.clip(year, np.min(yearlist), np.max(yearlist))
ClipYear(y, yearlist) == Clip(y, SetMin(yearlist), SetMax(yearlist))

Y0(yearlist, y) == SetMax({ k \in yearlist : k <= y })

\* a y1 that takes the last key after y0 instead of the next one
Y1Last(yearlist, y0) == SetMax(yearlist)

Y1(yearlist, y0) ==
    LET later == { k \in yearlist : k > y0 }
    IN  IF later = {} THEN SetMax(yearlist) ELSE SetMin(later)

\* c0 + dy*(c1 - c0) with dy = 0.0 if y1 == y0 else (year - y0)/float(y1 - y0)
Interp(c0, c1, y, y0, y1) ==
    [m \in Idx |-> [n \in Idx |->
        IF y1 = y0
        THEN c0[m][n]
        ELSE c0[m][n] + ((y - y0) * (c1[m][n] - c0[m][n])) \div (y1 - y0)]]

\* a set_year that clamps the year before it looks it up, and so takes the
\* table's own arrays of the first or last key for a year outside the table
SetYearEffectClipFirst(coeffs, norm, y) ==
    LET yc == ClipYear(y, DOMAIN coeffs)
    IN  IF yc \in DOMAIN coeffs
        THEN LET g == TimesNorm(coeffs[yc].g, norm)
                 h == TimesNorm(coeffs[yc].h, norm)
             IN  [coefficients |-> [coeffs EXCEPT ![yc] = [g |-> g, h |-> h]],
                  gcoeff |-> g, hcoeff |-> h]
        ELSE LET y0 == Y0(DOMAIN coeffs, yc)
                 y1 == Y1(DOMAIN coeffs, y0)
             IN  [coefficients |-> coeffs,
                  gcoeff |-> TimesNorm(Interp(coeffs[y0].g, coeffs[y1].g, yc, y0, y1), norm),
                  hcoeff |-> TimesNorm(Interp(coeffs[y0].h, coeffs[y1].h, yc, y0, y1), norm)]

\* the body of set_year for a numeric year: the table, gcoeff and hcoeff it leaves.
\* In the tabulated branch gcoeff and hcoeff are the table's own arrays, so the
\* in-place products of lines 97-98 write the table entry as well.
SetYearEffect(coeffs, norm, y) ==
    LET yearlist == DOMAIN coeffs
    IN  IF y \in yearlist
        THEN LET g == TimesNorm(coeffs[y].g, norm)
                 h == TimesNorm(coeffs[y].h, norm)
             IN  [coefficients |-> [coeffs EXCEPT ![y] = [g |-> g, h |-> h]],
                  gcoeff |-> g, hcoeff |-> h]
        ELSE LET yc == ClipYear(y, yearlist)
                 y0 == Y0(yearlist, yc)
                 y1 == Y1(yearlist, y0)
             IN  [coefficients |-> coeffs,
                  gcoeff |-> TimesNorm(Interp(coeffs[y0].g, coeffs[y1].g, yc, y0, y1), norm),
                  hcoeff |-> TimesNorm(Interp(coeffs[y0].h, coeffs[y1].h, yc, y0, y1), norm)]

\* the instance is followed by value: no address is tracked
NoHeap == heap = <<>> /\ objs = <<>> /\ call = <<>> /\ reader = <<>>

NoneResult(op, args) == [op |-> op, args |-> args, status |-> "ok", value |-> <<>>]

\* an __init__ that reads the table and returns without calling set_year
InitUnconfigured ==
    \E y \in EpochInputs \cup ClockYears :
        /\ coefficients = read_coefficients
        /\ gcoeff = <<>>
        /\ hcoeff = <<>>
        /\ year = y
        /\ schmidt_norm = SchmidtNorm
        /\ result = NoneResult("__init__", <<y>>)
        /\ nset = 0
        /\ fresh = TRUE
        /\ NoHeap

\* __init__: read_coefficients, then set_year(year); year None is the clock's year
Init ==
    \E y \in EpochInputs \cup ClockYears :
        LET e == SetYearEffect(read_coefficients, SchmidtNorm, y)
        IN  /\ coefficients = e.coefficients
            /\ gcoeff = e.gcoeff
            /\ hcoeff = e.hcoeff
            /\ year = y
            /\ schmidt_norm = SchmidtNorm
            /\ result = NoneResult("__init__", <<y>>)
            /\ nset = 0
            /\ fresh = TRUE
            /\ NoHeap

\* a set_year that stores the clamped year in self.year
DoSetYearClamped(y, bound) ==
    LET e == SetYearEffect(coefficients, schmidt_norm, y)
    IN  /\ nset < bound
        /\ coefficients' = e.coefficients
        /\ gcoeff' = e.gcoeff
        /\ hcoeff' = e.hcoeff
        /\ year' = ClipYear(y, DOMAIN coefficients)
        /\ result' = NoneResult("set_year", <<y>>)
        /\ nset' = nset + 1
        /\ fresh' = (coefficients = read_coefficients)
        /\ UNCHANGED schmidt_norm
        /\ UNCHANGED hvars

DoSetYear(y, bound) ==
    LET e == SetYearEffect(coefficients, schmidt_norm, y)
    IN  /\ nset < bound
        /\ coefficients' = e.coefficients
        /\ gcoeff' = e.gcoeff
        /\ hcoeff' = e.hcoeff
        /\ year' = y
        /\ result' = NoneResult("set_year", <<y>>)
        /\ nset' = nset + 1
        /\ fresh' = (coefficients = read_coefficients)
        /\ UNCHANGED schmidt_norm
        /\ UNCHANGED hvars

set_year == \E y \in EpochInputs : DoSetYear(y, MaxSetYear)

set_year_today == \E y \in ClockYears : DoSetYear(y, MaxSetYear)

reconfigure == \E y \in EpochInputs : DoSetYear(y, MaxReconfigure)

reconfigure_today == \E y \in ClockYears : DoSetYear(y, MaxReconfigure)

\* an instance on which only set_year is called
NextSetYear ==
    \/ reconfigure
    \/ reconfigure_today

SpecSetYear == Init /\ [][NextSetYear]_vars

-----------------------------------------------------------------------------
(* Values of the queries.  An argument that may be None is <<>> for None   *)
(* and <<v>> for the number v; a dict is a function on its string keys.    *)
(* A sum of harmonic terms is kept as the record of what it is computed    *)
(* from (the non-zero coefficient terms, r, theta, phi): equal records are *)
(* equal numbers.  Lengths are whole metres.                               *)

None == <<>>

Some(v) == <<v>>

\* dict.update
Update(d, u) == u @@ d

Raised(op, args, err) == [op |-> op, args |-> args, status |-> "raised", error |-> err]

Returned(op, args, v) == [op |-> op, args |-> args, status |-> "ok", value |-> v]

Re == 6371200

\* np.pi and the pole guard 1.0e-6, in units of 1e-6 rad
Pi == 3141592

Eps == 1

PiHalf == 1570796

\* sign of np.sin(t) for -2 pi <= t <= 2 pi: np.sin(np.pi) = 1.2e-16 is positive
SinSign(t) ==
    IF t = 0 THEN 0
    ELSE IF t > 0 THEN (IF t <= Pi THEN 1 ELSE -1)
    ELSE (IF -t <= Pi THEN -1 ELSE 1)

\* a spherical() that evaluates at the colatitude as given
ClipThetaMissing(theta) == theta

\* np.clip(theta, 1.0e-6, np.pi-1.0e-6)
ClipTheta(theta) == Clip(theta, Eps, Pi - Eps)

\* the terms (m, n, g[m,n], h[m,n]) at the index pairs summed over, without
\* those whose coefficients are both zero: they add 0 to every sum
Terms(g, h, pairs) ==
    { <<p[1], p[2], g[p[1]][p[2]], h[p[1]][p[2]]>> : p \in pairs } \
        { <<p[1], p[2], 0, 0>> : p \in pairs }

\* a slice that takes the whole arrays whatever the degree
SquareWhole(d) == Idx \X Idx

Square(d) == (0 .. d) \X (0 .. d)

\* a double sum that leaves out the sectoral terms m = n
TriangleOffDiagonal(d) == { p \in Square(d) : p[1] < p[2] }

Triangle(d) == { p \in Square(d) : p[1] <= p[2] }

\* one of the sums Br, -Btheta, -Bphi, V over the terms at (r, theta, phi);
\* with r = 0 the factor (Re/r)**k is inf and the sum is nan
Harmonic(comp, terms, r, theta, phi) ==
    IF r = 0 THEN [op |-> "nan"]
    ELSE [op |-> comp, terms |-> terms, r |-> r, theta |-> theta, phi |-> phi]

Quotient(num, theta) == [op |-> "div", num |-> num, den |-> [op |-> "sin", arg |-> theta]]

Min(a, b) == IF a < b THEN a ELSE b

\* numpy broadcasting of two square arrays
BroadcastOK(s1, s2) == s1 = s2 \/ s1 = 1 \/ s2 = 1

\* a spherical() that always stores the potential
PotentialEntryAlways(potential, v) == "V" :> v

\* if (potential): field.update(V = ...)
PotentialEntry(potential, v) == IF potential THEN "V" :> v ELSE <<>>

\* spherical(r, theta, phi, degree, potential, metadata)
Spherical(g, h, yr, a) ==
    LET theta == ClipTheta(a.theta)
        shapeP == a.degree + 1
        shapeG == Min(a.degree + 1, Dim)
        terms == Terms(g, h, Square(shapeG - 1))
        field == PotentialEntry(a.potential, Harmonic("V", terms, a.r, theta, a.phi))
                 @@ "r" :> Harmonic("Br", terms, a.r, theta, a.phi)
                 @@ "phi" :> Quotient(Harmonic("-Bphi", terms, a.r, theta, a.phi), theta)
                 @@ "theta" :> Harmonic("-Btheta", terms, a.r, theta, a.phi)
        meta == "position" :> ("r" :> Some(a.r) @@ "theta" :> Some(theta) @@ "phi" :> Some(a.phi))
                @@ "_" :> [name |-> "IGRF magnetic field model", units |-> "nanoTesla",
                           year |-> yr]
    IN  IF ~BroadcastOK(shapeG, shapeP)
        THEN Raised("spherical", a, "ValueError")
        ELSE Returned("spherical", a,
                      IF a.metadata THEN "field" :> field @@ meta ELSE "field" :> field)

SphericalBase ==
    [r |-> Re, theta |-> PiHalf, phi |-> 0, degree |-> Dim - 1,
     potential |-> FALSE, metadata |-> TRUE]

ThetaInputs == { -1000000, 0, Eps, PiHalf, Pi, Pi + 1 }

SphericalInputs ==
    { [SphericalBase EXCEPT !.theta = t] : t \in ThetaInputs }
    \cup { [SphericalBase EXCEPT !.degree = d] : d \in { 0, Dim - 2, Dim, Dim + 1 } }
    \cup { [SphericalBase EXCEPT !.potential = TRUE],
           [SphericalBase EXCEPT !.metadata = FALSE],
           [SphericalBase EXCEPT !.phi = PiHalf] }

\* a query that applies the Schmidt normalization to self.gcoeff itself
QueryNormalizing(res) ==
    /\ result' = res
    /\ gcoeff' = TimesNorm(gcoeff, schmidt_norm)
    /\ UNCHANGED <<coefficients, year, hcoeff, schmidt_norm, nset, fresh>>
    /\ UNCHANGED hvars

\* a query returns its value and leaves every attribute of the instance alone
Query(res) ==
    /\ result' = res
    /\ UNCHANGED <<coefficients, year, gcoeff, hcoeff, schmidt_norm, nset, fresh>>
    /\ UNCHANGED hvars

spherical == \E a \in SphericalInputs : Query(Spherical(gcoeff, hcoeff, year, a))

-----------------------------------------------------------------------------
(* convert_coordinates *)

\* kwargs.pop(name, None)
Pop(kw, name) == IF name \in DOMAIN kw THEN kw[name] ELSE None

\* not np.any([v is None for v in triple])
Complete(t) == \A i \in 1..3 : t[i] # None

\* r, theta, phi of a point on a coordinate axis
CartToSph(x, y, z) ==
    "r" :> (IF x < 0 THEN -x ELSE x) + (IF y < 0 THEN -y ELSE y) + (IF z < 0 THEN -z ELSE z)
    @@ "theta" :> (IF z > 0 THEN 0 ELSE IF z < 0 THEN Pi ELSE PiHalf)
    @@ "phi" :> (IF y > 0 THEN PiHalf ELSE IF y < 0 THEN -PiHalf ELSE IF x < 0 THEN Pi ELSE 0)

\* a conversion that takes the earth for the sphere of radius Re
GeogToSphOnSphere(height, latitude, longitude) ==
    "r" :> Re + height @@ "theta" :> PiHalf @@ "phi" :> 0 @@ "psi" :> 0

\* the WGS-84 conversion at the two geodetic positions the model queries:
\* (0 m, 0 N, 0 E) and (0 m, 45 N, 30 E)
GeogToSph(height, latitude, longitude) ==
    IF latitude = 0
    THEN "r" :> 6378137 @@ "theta" :> PiHalf @@ "phi" :> 0 @@ "psi" :> 0
    ELSE "r" :> 6367489 @@ "theta" :> 788757 @@ "phi" :> 523599 @@ "psi" :> 3358

\* x, y, z for theta and phi in {0, pi/2}
SphToCart(r, theta, phi) ==
    "x" :> (IF theta = PiHalf /\ phi = 0 THEN r ELSE 0)
    @@ "y" :> (IF theta = PiHalf /\ phi = PiHalf THEN r ELSE 0)
    @@ "z" :> (IF theta = 0 THEN r ELSE 0)

\* a convert_coordinates that prefers the spherical triple, then the geodetic,
\* then the Cartesian
ConvertCoordinatesSphericalFirst(kw, sphericalFlag, cartesianFlag, geographicFlag) ==
    LET spher == <<Pop(kw, "r"), Pop(kw, "theta"), Pop(kw, "phi")>>
        cart == <<Pop(kw, "x"), Pop(kw, "y"), Pop(kw, "z")>>
        geog == <<Pop(kw, "height"), Pop(kw, "latitude"), Pop(kw, "longitude")>>
        args == [kw |-> kw, spherical |-> sphericalFlag, cartesian |-> cartesianFlag,
                 geographic |-> geographicFlag]
        sph == IF ~sphericalFlag THEN <<>>
               ELSE IF Complete(spher)
                    THEN "r" :> spher[1][1] @@ "theta" :> spher[2][1] @@ "phi" :> spher[3][1]
               ELSE IF Complete(geog) THEN GeogToSph(geog[1][1], geog[2][1], geog[3][1])
               ELSE IF Complete(cart) THEN CartToSph(cart[1][1], cart[2][1], cart[3][1])
               ELSE "r" :> 0 @@ "theta" :> 0 @@ "phi" :> 0
    IN  IF cartesianFlag /\ ~Complete(spher)
        THEN Raised("convert_coordinates", args, "TypeError")
        ELSE Returned("convert_coordinates", args,
                      IF cartesianFlag
                      THEN Update(sph, SphToCart(spher[1][1], spher[2][1], spher[3][1]))
                      ELSE sph)

\* a convert_coordinates whose commented-out geographic branch is live: the
\* geographic flag stores x, y, z as the cartesian flag does
ConvertCoordinatesGeographic(kw, sphericalFlag, cartesianFlag, geographicFlag) ==
    LET spher == <<Pop(kw, "r"), Pop(kw, "theta"), Pop(kw, "phi")>>
        cart == <<Pop(kw, "x"), Pop(kw, "y"), Pop(kw, "z")>>
        geog == <<Pop(kw, "height"), Pop(kw, "latitude"), Pop(kw, "longitude")>>
        args == [kw |-> kw, spherical |-> sphericalFlag, cartesian |-> cartesianFlag,
                 geographic |-> geographicFlag]
        sph == IF ~sphericalFlag THEN <<>>
               ELSE IF Complete(cart) THEN CartToSph(cart[1][1], cart[2][1], cart[3][1])
               ELSE IF Complete(geog) THEN GeogToSph(geog[1][1], geog[2][1], geog[3][1])
               ELSE IF ~Complete(spher)
                    THEN "r" :> 0 @@ "theta" :> 0 @@ "phi" :> 0
               ELSE "r" :> spher[1][1] @@ "theta" :> spher[2][1] @@ "phi" :> spher[3][1]
    IN  IF (cartesianFlag \/ geographicFlag) /\ ~Complete(spher)
        THEN Raised("convert_coordinates", args, "TypeError")
        ELSE Returned("convert_coordinates", args,
                      IF cartesianFlag
                      THEN Update(sph, SphToCart(spher[1][1], spher[2][1], spher[3][1]))
                      ELSE IF geographicFlag
                      THEN Update(sph, "geographic" :> TRUE)
                      ELSE sph)

\* convert_coordinates(spherical, cartesian, geographic, **kw); the body never
\* reads geographic
ConvertCoordinates(kw, sphericalFlag, cartesianFlag, geographicFlag) ==
    LET spher == <<Pop(kw, "r"), Pop(kw, "theta"), Pop(kw, "phi")>>
        cart == <<Pop(kw, "x"), Pop(kw, "y"), Pop(kw, "z")>>
        geog == <<Pop(kw, "height"), Pop(kw, "latitude"), Pop(kw, "longitude")>>
        args == [kw |-> kw, spherical |-> sphericalFlag, cartesian |-> cartesianFlag,
                 geographic |-> geographicFlag]
        sph == IF ~sphericalFlag THEN <<>>
               ELSE IF Complete(cart) THEN CartToSph(cart[1][1], cart[2][1], cart[3][1])
               ELSE IF Complete(geog) THEN GeogToSph(geog[1][1], geog[2][1], geog[3][1])
               ELSE IF ~Complete(spher)
                    THEN "r" :> 0 @@ "theta" :> 0 @@ "phi" :> 0
               ELSE "r" :> spher[1][1] @@ "theta" :> spher[2][1] @@ "phi" :> spher[3][1]
    IN  IF cartesianFlag /\ ~Complete(spher)
        THEN Raised("convert_coordinates", args, "TypeError")
        ELSE Returned("convert_coordinates", args,
                      IF cartesianFlag
                      THEN Update(sph, SphToCart(spher[1][1], spher[2][1], spher[3][1]))
                      ELSE sph)

SpherAtPole == "r" :> Some(Re) @@ "theta" :> Some(0) @@ "phi" :> Some(0)

SpherAtEquator == "r" :> Some(Re) @@ "theta" :> Some(PiHalf) @@ "phi" :> Some(PiHalf)

CartAtPole == "x" :> Some(0) @@ "y" :> Some(0) @@ "z" :> Some(Re)

GeogAtOrigin == "height" :> Some(0) @@ "latitude" :> Some(0) @@ "longitude" :> Some(0)

GeogMid == "height" :> Some(0) @@ "latitude" :> Some(45) @@ "longitude" :> Some(30)

\* keyword arguments naming a complete triple
CompleteKw == { SpherAtPole, CartAtPole, GeogAtOrigin, GeogMid }

\* keyword arguments naming no complete triple
IncompleteKw ==
    { <<>>,
      "r" :> Some(Re) @@ "theta" :> Some(PiHalf),
      "x" :> Some(Re) @@ "latitude" :> Some(45) @@ "phi" :> None }

KwInputs ==
    CompleteKw \cup IncompleteKw
    \cup { SpherAtPole @@ CartAtPole, GeogMid @@ SpherAtPole, CartAtPole @@ GeogMid,
           SpherAtEquator @@ CartAtPole, SpherAtEquator @@ CartAtPole @@ GeogMid,
           SpherAtPole @@ ("name" :> Some(1)) }

ConvertInputs ==
    { [kw |-> kw, spherical |-> TRUE, cartesian |-> FALSE, geographic |-> FALSE] :
         kw \in KwInputs }
    \cup { [kw |-> kw, spherical |-> sf, cartesian |-> cf, geographic |-> gf] :
              kw \in { SpherAtPole, SpherAtEquator }, sf, cf, gf \in BOOLEAN }
    \cup { [kw |-> CartAtPole, spherical |-> TRUE, cartesian |-> TRUE,
             geographic |-> FALSE] }

\* convert_coordinates reads no attribute of the instance
convert_coordinates ==
    \E a \in ConvertInputs :
        /\ result' = ConvertCoordinates(a.kw, a.spherical, a.cartesian, a.geographic)
        /\ UNCHANGED <<coefficients, year, gcoeff, hcoeff, schmidt_norm, nset, fresh>>
        /\ UNCHANGED hvars

-----------------------------------------------------------------------------
(* geographic, cartesian, fdi *)

\* an expression that takes its two operands in the other order
Expr2Swapped(op, a, b) == [op |-> op, a |-> b, b |-> a]

Expr2(op, a, b) == [op |-> op, a |-> a, b |-> b]

\* an expression that takes its first two operands in the other order
Expr3Swapped(op, a, b, c) == [op |-> op, a |-> b, b |-> a, c |-> c]

Expr3(op, a, b, c) == [op |-> op, a |-> a, b |-> b, c |-> c]

\* geographic(height, latitude, longitude, metadata, potential, **kwargs);
\* a.kw holds height, latitude, longitude and the extra keyword arguments
Geographic(g, h, yr, a) ==
    LET kw == a.kw @@ ("height" :> None @@ "latitude" :> None @@ "longitude" :> None)
        coords == ConvertCoordinates(kw, TRUE, FALSE, FALSE).value
        res == Spherical(g, h, yr,
                         [r |-> coords["r"], theta |-> coords["theta"], phi |-> coords["phi"],
                          degree |-> Dim - 1, potential |-> a.potential, metadata |-> TRUE])
        psi == IF "psi" \in DOMAIN coords THEN coords["psi"] ELSE 0
        f == res.value["field"]
        north == Expr3("-a*cos(c)-b*sin(c)", f["theta"], f["r"], psi)
        east == f["phi"]
        up == Expr3("-(a*sin(c)-b*cos(c))", f["theta"], f["r"], psi)
        horizontal == Expr2("sqrt(a^2+b^2)", north, east)
        field == Update(Update(f, "east" :> east @@ "north" :> north @@ "up" :> up),
                        "inclination" :> Expr2("atan2(a,b)/dtor", up, horizontal)
                        @@ "declination" :> Expr2("atan2(a,b)/dtor", east, north)
                        @@ "horizontal" :> horizontal
                        @@ "field" :> Expr3("sqrt(a^2+b^2+c^2)", north, east, up))
        position == IF a.metadata
                    THEN Update(res.value["position"],
                                "height" :> kw["height"] @@ "latitude" :> kw["latitude"]
                                @@ "longitude" :> kw["longitude"])
                    ELSE res.value["position"]
    IN  IF res.status = "raised"
        THEN Raised("geographic", a, res.error)
        ELSE Returned("geographic", a,
                      Update(res.value, "field" :> field @@ "position" :> position))

\* cartesian(x, y, z, metadata, potential, **kwargs); a.kw holds x, y, z and
\* the extra keyword arguments
Cartesian(g, h, yr, a) ==
    LET kw == a.kw @@ ("x" :> None @@ "y" :> None @@ "z" :> None)
        coords == ConvertCoordinates(kw, TRUE, FALSE, FALSE).value
        res == Spherical(g, h, yr,
                         [r |-> coords["r"], theta |-> coords["theta"], phi |-> coords["phi"],
                          degree |-> Dim - 1, potential |-> a.potential, metadata |-> TRUE])
        f == res.value["field"]
        field == Update(f, "x" :> Expr3("a*sin(b)*cos(c)", f["r"], f["theta"], f["phi"])
                           @@ "y" :> Expr3("a*sin(b)*sin(c)", f["r"], f["theta"], f["phi"])
                           @@ "z" :> Expr2("a*cos(b)", f["r"], f["theta"]))
        position == IF a.metadata
                    THEN Update(res.value["position"],
                                "x" :> kw["x"] @@ "y" :> kw["y"] @@ "z" :> kw["z"])
                    ELSE res.value["position"]
    IN  IF res.status = "raised"
        THEN Raised("cartesian", a, res.error)
        ELSE Returned("cartesian", a,
                      Update(res.value, "field" :> field @@ "position" :> position))

\* fdi(**kwargs)
Fdi(g, h, yr, a) ==
    LET conv == ConvertCoordinates(a.kw, TRUE, FALSE, FALSE)
        coords == [k \in DOMAIN conv.value |-> Some(conv.value[k])]
        res == Geographic(g, h, yr, [kw |-> coords, metadata |-> TRUE, potential |-> FALSE])
    IN  IF res.status = "raised"
        THEN Raised("fdi", a, res.error)
        ELSE IF ~({"x", "y", "z"} \subseteq DOMAIN res.value["field"])
        THEN Raised("fdi", a, "KeyError")
        ELSE Returned("fdi", a, None)

PositionInputs(kw0) ==
    { [kw |-> kw, metadata |-> TRUE, potential |-> FALSE] :
         kw \in { GeogAtOrigin, SpherAtPole } \cup IncompleteKw }
    \cup { [kw |-> kw0, metadata |-> md, potential |-> pt] : md, pt \in BOOLEAN }

GeographicInputs == PositionInputs(GeogMid)

CartesianInputs == PositionInputs(CartAtPole)

FdiInputs == { [kw |-> kw] : kw \in { SpherAtPole, CartAtPole, GeogMid, <<>> } }

geographic == \E a \in GeographicInputs : Query(Geographic(gcoeff, hcoeff, year, a))

cartesian == \E a \in CartesianInputs : Query(Cartesian(gcoeff, hcoeff, year, a))

fdi == \E a \in FdiInputs : Query(Fdi(gcoeff, hcoeff, year, a))

-----------------------------------------------------------------------------
(* The reference summations _spherical0 .. _spherical3: no pole guard, the  *)
(* value is the tuple (Br, -Btheta, -Bphi/sin(theta), V*Re).                *)

SumTuple(terms, a) ==
    << Harmonic("Br", terms, a.r, a.theta, a.phi),
       Harmonic("-Btheta", terms, a.r, a.theta, a.phi),
       Quotient(Harmonic("-Bphi", terms, a.r, a.theta, a.phi), a.theta),
       Harmonic("V", terms, a.r, a.theta, a.phi) >>

\* loops n in 0..degree, m in 0..n over G[m,n]
Spherical0(g, h, a) ==
    IF a.degree > Dim - 1
    THEN Raised("_spherical0", a, "IndexError")
    ELSE Returned("_spherical0", a, SumTuple(Terms(g, h, Triangle(a.degree)), a))

\* degree = 14: sums over the whole square
Spherical1(g, h, a) == Returned("_spherical1", a, SumTuple(Terms(g, h, Square(Dim - 1)), a))

Spherical2(g, h, a) == Returned("_spherical2", a, SumTuple(Terms(g, h, Square(Dim - 1)), a))

\* W = (G != 0) | (H != 0) selects the terms summed
Spherical3(g, h, a) ==
    LET W == { p \in Square(Dim - 1) : g[p[1]][p[2]] # 0 \/ h[p[1]][p[2]] # 0 }
    IN  Returned("_spherical3", a, SumTuple(Terms(g, h, W), a))

ReferenceBase == [r |-> Re, theta |-> PiHalf, phi |-> 0, degree |-> Dim - 2]

ReferenceInputs == { ReferenceBase, [ReferenceBase EXCEPT !.theta = 0] }

Spherical0Inputs == ReferenceInputs \cup { [ReferenceBase EXCEPT !.degree = Dim] }

spherical0 == \E a \in Spherical0Inputs : Query(Spherical0(gcoeff, hcoeff, a))

spherical1 == \E a \in { ReferenceBase } : Query(Spherical1(gcoeff, hcoeff, a))

spherical2 == \E a \in { ReferenceBase } : Query(Spherical2(gcoeff, hcoeff, a))

spherical3 == \E a \in ReferenceInputs : Query(Spherical3(gcoeff, hcoeff, a))

Next ==
    \/ set_year
    \/ set_year_today
    \/ spherical
    \/ convert_coordinates
    \/ geographic
    \/ cartesian
    \/ fdi
    \/ spherical0
    \/ spherical1
    \/ spherical2
    \/ spherical3

Spec == Init /\ [][Next]_vars

-----------------------------------------------------------------------------
(* Properties of set_year *)

\* the last tabulated epoch (2015) and the key parsed from the trailing column
YLast == years[24]

YTop == years[25]

\* the trailing secular-variation column, nT/year
Rate(gh) == Parsed(gh, 25)

Abs(x) == IF x < 0 THEN -x ELSE x

\* C1: in the terminal span yLast < e <= top key, set_year(e) on a fresh model
\* leaves SchmidtNorm x (c(yLast) + (e - yLast) x rate), rate in nT per year.
C1_TerminalSpanUsesRatePerYear ==
    (fresh /\ YLast < year /\ year <= YTop) =>
        \A m \in Idx, n \in Idx :
            /\ gcoeff[m][n] =
                  MulNorm(read_coefficients[YLast].g[m][n]
                             + ((year - YLast) * Rate("g")[m][n]) \div Yr(1),
                          SchmidtNorm[m][n])
            /\ hcoeff[m][n] =
                  MulNorm(read_coefficients[YLast].h[m][n]
                             + ((year - YLast) * Rate("h")[m][n]) \div Yr(1),
                          SchmidtNorm[m][n])

\* C2: the coefficient table is never changed after construction: every entry
\* of self.coefficients stays what read_coefficients produced.
C2_TableReadOnly == coefficients = read_coefficients

\* C3: set_year(e) called twice in a row leaves gcoeff and hcoeff as the first
\* call left them.
C3_SetYearIdempotent ==
    [][(result.op \in {"__init__", "set_year"} /\ nset' = nset + 1 /\ year' = year)
          => (gcoeff' = gcoeff /\ hcoeff' = hcoeff)]_vars

\* C4: for a tabulated epoch e, set_year(e) on a fresh model leaves
\* gcoeff = SchmidtNorm x g_table(e) and hcoeff = SchmidtNorm x h_table(e),
\* element by element, with no interpolation.
C4_TabulatedEpochExact ==
    (fresh /\ year \in YearKeys) =>
        \A m \in Idx, n \in Idx :
            /\ gcoeff[m][n] = MulNorm(read_coefficients[year].g[m][n], SchmidtNorm[m][n])
            /\ hcoeff[m][n] = MulNorm(read_coefficients[year].h[m][n], SchmidtNorm[m][n])

\* set_year(2000) after construction on an untouched table: g[1][1] = -1728.2 nT
\* times the norm -1
C4_Witness ==
    /\ fresh /\ nset > 0 /\ year = Yr(2000)
    /\ gcoeff[1][1] = 1728200
    /\ hcoeff[1][1] = -5186100

\* what set_year(y) leaves on a model whose table is as constructed
FreshResolve(y) == SetYearEffect(read_coefficients, SchmidtNorm, y)

\* C5: on a fresh model an epoch below the first key gives the working set of
\* the first key, an epoch above the last key gives the working set of the
\* last key, and set_year returns normally.
C5_OutOfRangeClamped ==
    /\ (fresh /\ year < SetMin(YearKeys)) =>
          /\ gcoeff = FreshResolve(SetMin(YearKeys)).gcoeff
          /\ hcoeff = FreshResolve(SetMin(YearKeys)).hcoeff
    /\ (fresh /\ year > SetMax(YearKeys)) =>
          /\ gcoeff = FreshResolve(SetMax(YearKeys)).gcoeff
          /\ hcoeff = FreshResolve(SetMax(YearKeys)).hcoeff
    /\ result.op \in {"__init__", "set_year"} => result.status = "ok"

\* set_year(2021) after construction on an untouched table
C5_Witness ==
    /\ fresh /\ nset > 0 /\ year = Yr(2021) /\ result.op = "set_year"
    /\ gcoeff[0][1] = read_coefficients[YTop].g[0][1]
    /\ gcoeff[1][1] = - read_coefficients[YTop].g[1][1]

\* one entry of the working set against the interpolation of c0 and c1 at epoch y
\* in the span y0 < y < y1, s the norm entry, r0 and r1 the normalized end points
InterpolatedEntry(got, c0, c1, y, y0, y1, s, r0, r1) ==
    LET pre == c0 + ((y - y0) * (c1 - c0)) \div (y1 - y0)
    IN  /\ (y1 - y0) * pre = (y1 - y) * c0 + (y - y0) * c1
        /\ got = MulNorm(pre, s)
        /\ Abs((y1 - y0) * got - ((y1 - y) * r0 + (y - y0) * r1)) < (y1 - y0)

\* C6: for an epoch strictly between two consecutive keys y0 < e < y1,
\* set_year(e) on a fresh model takes y0 the greatest key <= e and y1 the
\* least key > y0 and leaves SchmidtNorm x (c0 + (e-y0)/(y1-y0) x (c1-c0)),
\* the convex combination of the working sets of y0 and y1 (to rounding).
C6_InteriorSpanInterpolated ==
    (fresh /\ year \notin YearKeys /\ SetMin(YearKeys) < year /\ year < SetMax(YearKeys)) =>
        LET y0 == CHOOSE k \in YearKeys :
                      k < year /\ \A j \in YearKeys : j < year => j <= k
            y1 == CHOOSE k \in YearKeys :
                      k > year /\ \A j \in YearKeys : j > year => k <= j
            t0 == read_coefficients[y0]
            t1 == read_coefficients[y1]
        IN  \A m \in Idx, n \in Idx :
              /\ InterpolatedEntry(gcoeff[m][n], t0.g[m][n], t1.g[m][n], year, y0, y1,
                                   SchmidtNorm[m][n],
                                   FreshResolve(y0).gcoeff[m][n], FreshResolve(y1).gcoeff[m][n])
              /\ InterpolatedEntry(hcoeff[m][n], t0.h[m][n], t1.h[m][n], year, y0, y1,
                                   SchmidtNorm[m][n],
                                   FreshResolve(y0).hcoeff[m][n], FreshResolve(y1).hcoeff[m][n])

\* set_year(2011.5) after construction on an untouched table:
\* g[0][1] = -29496.57 + 0.3 x (-29442.0 + 29496.57) = -29480.199 nT
C6_Witness ==
    /\ fresh /\ nset > 0 /\ year = HalfAfter(2011)
    /\ gcoeff[0][1] = -29480199
    /\ gcoeff[1][1] = 1560794

-----------------------------------------------------------------------------
(* Properties of the queries *)

PositionOps == {"convert_coordinates", "geographic", "cartesian", "fdi"}

QueryOps ==
    PositionOps \cup {"spherical", "_spherical0", "_spherical1", "_spherical2", "_spherical3"}

Given(kw, name) == name \in DOMAIN kw /\ kw[name] # None

NoCompleteTriple(kw) ==
    /\ ~(Given(kw, "r") /\ Given(kw, "theta") /\ Given(kw, "phi"))
    /\ ~(Given(kw, "x") /\ Given(kw, "y") /\ Given(kw, "z"))
    /\ ~(Given(kw, "height") /\ Given(kw, "latitude") /\ Given(kw, "longitude"))

\* C7: convert_coordinates, and geographic, cartesian and fdi through it, given
\* no complete spherical, Cartesian or geodetic triple, raises an error: it
\* returns no position and no field.
C7_IncompleteTripleRaises ==
    (result.op \in PositionOps /\ NoCompleteTriple(result.args.kw)) =>
        result.status = "raised"

\* C8: a query, whether it returns or raises, leaves year, gcoeff, hcoeff, the
\* coefficient table and schmidt_norm as they were.
C8_QueriesLeaveCacheUnchanged ==
    [][result'.op \in QueryOps =>
          UNCHANGED <<year, gcoeff, hcoeff, coefficients, schmidt_norm>>]_vars

\* igrfModel(2011.5), set_year(2000), then a spherical() call that raised
C8_Witness ==
    /\ result.op = "spherical" /\ result.status = "raised"
    /\ result.args.degree = Dim
    /\ nset = 1 /\ fresh /\ year = Yr(2000)
    /\ gcoeff[1][1] = 1728200
    /\ coefficients[Yr(2000)].g = gcoeff

\* C9: spherical() with a degree above what the coefficient arrays support
\* returns, without an error, the field of the highest supported degree.
C9_ExcessDegreeClamped ==
    (result.op = "spherical" /\ result.args.degree > Dim - 1) =>
        /\ result.status = "ok"
        /\ result.value =
              Spherical(gcoeff, hcoeff, year, [result.args EXCEPT !.degree = Dim - 1]).value

-----------------------------------------------------------------------------
(* Properties of the field values *)

InClampRange(theta) == Eps <= theta /\ theta <= Pi - Eps

\* (Br, Btheta, Bphi, V) as spherical(potential=True) returns them
SphericalTuple(a) ==
    LET f == Spherical(gcoeff, hcoeff, year,
                       [r |-> a.r, theta |-> a.theta, phi |-> a.phi, degree |-> a.degree,
                        potential |-> TRUE, metadata |-> FALSE]).value["field"]
    IN  <<f["r"], f["theta"], f["phi"], f["V"]>>

\* positions with r > 0 and theta inside the clamp range, degrees 0 .. 13
C11Inputs ==
    { [r |-> r, theta |-> t, phi |-> p, degree |-> d] :
         r \in { Re, 2 * Re }, t \in { Eps, PiHalf, Pi - Eps }, p \in { 0, PiHalf },
         d \in 0 .. Dim - 2 }

\* C11: for the configured coefficients, r > 0, theta inside the clamp range
\* and a degree from 0 to 13, spherical() returns the same Br, Btheta, Bphi
\* and V as the double sum over 0 <= m <= n <= degree of _spherical0.
C11_MatrixFormMatchesDoubleSum ==
    /\ \A a \in C11Inputs :
          /\ Spherical0(gcoeff, hcoeff, a).status = "ok"
          /\ Spherical0(gcoeff, hcoeff, a).value = SphericalTuple(a)
    /\ (/\ result.op = "_spherical0" /\ result.status = "ok"
        /\ result.args.r > 0 /\ InClampRange(result.args.theta)
        /\ result.args.degree <= Dim - 2)
          => result.value = SphericalTuple(result.args)

\* _spherical0(Re, pi/2, 0, degree 13) on igrfModel(2000) returned the sum with
\* the sectoral term g[1][1]
C11_Witness ==
    /\ nset = 0 /\ year = Yr(2000)
    /\ result.op = "_spherical0" /\ result.status = "ok" /\ result.args = ReferenceBase
    /\ <<1, 1, 1728200, -5186100>> \in result.value[1].terms
    /\ result.value = SphericalTuple(ReferenceBase)

\* the keyword arguments of geographic() as convert_coordinates receives them
GeographicKw(kw) == kw @@ ("height" :> None @@ "latitude" :> None @@ "longitude" :> None)

\* the conversion takes the geodetic branch: no Cartesian triple, a geodetic one
GeodeticGiven(kw) ==
    /\ ~(Given(kw, "x") /\ Given(kw, "y") /\ Given(kw, "z"))
    /\ Given(kw, "height") /\ Given(kw, "latitude") /\ Given(kw, "longitude")

SphericalGiven(kw) ==
    /\ ~(Given(kw, "x") /\ Given(kw, "y") /\ Given(kw, "z"))
    /\ ~GeodeticGiven(kw)
    /\ Given(kw, "r") /\ Given(kw, "theta") /\ Given(kw, "phi")

\* the geocentric field spherical() returns at the converted position
GeocentricField(kw, potential) ==
    LET coords == ConvertCoordinates(kw, TRUE, FALSE, FALSE).value
    IN  Spherical(gcoeff, hcoeff, year,
                  [r |-> coords["r"], theta |-> coords["theta"], phi |-> coords["phi"],
                   degree |-> Dim - 1, potential |-> potential, metadata |-> TRUE]).value["field"]

\* C12: geographic() returns north = -Btheta cos(psi) - Br sin(psi),
\* east = Bphi, up = -(Btheta sin(psi) - Br cos(psi)) of the field
\* (Br, Btheta, Bphi) spherical() returns at the converted position, psi being
\* the geodetic minus geocentric latitude of the conversion (3358e-6 rad at
\* 45 N, 0 on the equator) and 0 for a position given as r, theta, phi.
C12_GeographicRotatesByPsi ==
    (result.op = "geographic" /\ result.status = "ok") =>
        LET kw == GeographicKw(result.args.kw)
            B == GeocentricField(kw, result.args.potential)
            f == result.value["field"]
            psi == IF GeodeticGiven(kw)
                   THEN (IF kw["latitude"] = Some(45) THEN 3358 ELSE 0)
                   ELSE 0
        IN  /\ f["north"] = [op |-> "-a*cos(c)-b*sin(c)", a |-> B["theta"], b |-> B["r"], c |-> psi]
            /\ f["east"] = B["phi"]
            /\ f["up"] = [op |-> "-(a*sin(c)-b*cos(c))", a |-> B["theta"], b |-> B["r"], c |-> psi]
            /\ SphericalGiven(kw) => (f["north"].c = 0 /\ f["up"].c = 0)

\* geographic(height=0, latitude=45, longitude=30) on igrfModel(2000) rotated
\* by psi = 3358e-6 rad
C12_Witness ==
    /\ nset = 0 /\ year = Yr(2000)
    /\ result.op = "geographic" /\ result.status = "ok" /\ result.args.kw = GeogMid
    /\ result.value["field"]["north"].c = 3358
    /\ result.value["field"]["north"].a.op = "-Btheta"
    /\ result.value["field"]["north"].b.op = "Br"
    /\ result.value["field"]["north"].b.r = 6367489

\* the quantities whose squares add up to north^2 + east^2 + up^2: north and up
\* are (a, b) turned by the angle c, so north^2 + up^2 = a^2 + b^2
SquaresOfENU(f) ==
    IF /\ f["north"].op = "-a*cos(c)-b*sin(c)" /\ f["up"].op = "-(a*sin(c)-b*cos(c))"
       /\ f["north"].a = f["up"].a /\ f["north"].b = f["up"].b /\ f["north"].c = f["up"].c
    THEN { f["north"].a, f["north"].b, f["east"] }
    ELSE { f["north"], f["east"], f["up"] }

\* the quantities whose squares add up to x^2 + y^2 + z^2: for x = a sin(b) cos(c),
\* y = a sin(b) sin(c), z = a cos(b) the sum is a^2
SquaresOfXYZ(f) ==
    IF /\ f["x"].op = "a*sin(b)*cos(c)" /\ f["y"].op = "a*sin(b)*sin(c)"
       /\ f["z"].op = "a*cos(b)"
       /\ f["x"].a = f["y"].a /\ f["x"].a = f["z"].a
       /\ f["x"].b = f["y"].b /\ f["x"].b = f["z"].b /\ f["x"].c = f["y"].c
    THEN { f["x"].a }
    ELSE { f["x"], f["y"], f["z"] }

\* C13: for the same point and epoch, x^2 + y^2 + z^2 of cartesian() is
\* Br^2 + Btheta^2 + Bphi^2 and equals north^2 + east^2 + up^2 of geographic().
C13_MagnitudeFrameIndependent ==
    (result.op = "cartesian" /\ result.status = "ok") =>
        LET f == result.value["field"]
            geo == Geographic(gcoeff, hcoeff, year,
                              [kw |-> result.args.kw, metadata |-> TRUE, potential |-> FALSE])
        IN  /\ SquaresOfXYZ(f) = { f["r"], f["theta"], f["phi"] }
            /\ geo.status = "ok" /\ SquaresOfXYZ(f) = SquaresOfENU(geo.value["field"])

FieldOps == {"spherical", "geographic", "cartesian"}

\* the call that returned result, made again with the given potential flag
Recomputed(potential) ==
    LET a == [result.args EXCEPT !.potential = potential]
    IN  IF result.op = "spherical" THEN Spherical(gcoeff, hcoeff, year, a)
        ELSE IF result.op = "geographic" THEN Geographic(gcoeff, hcoeff, year, a)
        ELSE Cartesian(gcoeff, hcoeff, year, a)

WithoutV(f) == [k \in DOMAIN f \ {"V"} |-> f[k]]

\* C14: the field of spherical(), geographic() and cartesian() has the entry V
\* exactly when potential=True was passed, and every other component is the
\* same with potential=True and with potential=False.
C14_PotentialOptional ==
    (result.op \in FieldOps /\ result.status = "ok") =>
        LET f == result.value["field"]
            other == Recomputed(~result.args.potential)
        IN  /\ ("V" \in DOMAIN f) <=> result.args.potential
            /\ other.status = "ok"
            /\ ("V" \in DOMAIN other.value["field"]) <=> ~result.args.potential
            /\ WithoutV(other.value["field"]) = WithoutV(f)
            /\ DOMAIN WithoutV(f) # {}

\* geographic(0, 45, 30, potential=True) on igrfModel(2000) returned V with the
\* rotated components
C14_Witness ==
    /\ nset = 0 /\ year = Yr(2000)
    /\ result.op = "geographic" /\ result.status = "ok"
    /\ result.args.kw = GeogMid /\ result.args.potential
    /\ result.value["field"]["V"].op = "V"
    /\ {"north", "east", "up", "r", "theta", "phi"} \subseteq DOMAIN result.value["field"]

-----------------------------------------------------------------------------
(* Properties of construction and of instances *)

\* arr is the Schmidt-normalized g or h of epoch y: the table value of the
\* clamped epoch, interpolated between the keys around it, times the norm
NormalizedAt(arr, gh, y) ==
    LET yc == IF y < SetMin(YearKeys) THEN SetMin(YearKeys)
              ELSE IF y > SetMax(YearKeys) THEN SetMax(YearKeys) ELSE y
        y0 == CHOOSE k \in YearKeys : k <= yc /\ \A j \in YearKeys : j <= yc => j <= k
        y1 == IF \A j \in YearKeys : j <= y0 THEN y0
              ELSE CHOOSE k \in YearKeys : k > y0 /\ \A j \in YearKeys : j > y0 => k <= j
        t0 == read_coefficients[y0][gh]
        t1 == read_coefficients[y1][gh]
    IN  /\ DOMAIN arr = Idx
        /\ \A m \in Idx, n \in Idx :
              arr[m][n] = MulNorm(IF y1 = y0 THEN t0[m][n]
                                  ELSE t0[m][n] + ((yc - y0) * (t1[m][n] - t0[m][n])) \div (y1 - y0),
                                  SchmidtNorm[m][n])

\* C15: igrfModel(year) returns without error for an omitted year, a tabulated
\* epoch, a non-tabulated integer, a fractional year, a year below the table
\* and a year after the last epoch, and leaves gcoeff and hcoeff set and
\* normalized, so that every query finds the working coefficients set.
C15_ConstructionConfigures ==
    /\ nset = 0 =>
          /\ year \in EpochInputs \cup ClockYears
          /\ (result.op = "__init__" => result.status = "ok")
          /\ NormalizedAt(gcoeff, "g", year)
          /\ NormalizedAt(hcoeff, "h", year)
    /\ result.op \in QueryOps => (DOMAIN gcoeff = Idx /\ DOMAIN hcoeff = Idx)

\* igrfModel(2011) answered a query with the coefficients interpolated at 2011:
\* g[0][1] = -29496.57 + 0.2 x (-29442.0 + 29496.57) = -29485.656 nT
C15_Witness ==
    /\ nset = 0 /\ year = Yr(2011)
    /\ result.op = "spherical" /\ result.status = "ok"
    /\ gcoeff[0][1] = -29485656
    /\ hcoeff[1][1] = -4914828

-----------------------------------------------------------------------------
(* Instances followed by address.  A numpy array is an object: the table of *)
(* an instance holds one array per epoch key and g/h, self.gcoeff and        *)
(* self.hcoeff are bound to an array, and *= writes the array it is bound    *)
(* to.  An address is <<owner, epoch key, name>>.                            *)

Instances == { 1, 2 }

\* calls made on the instances after their construction
MaxInstanceCalls == 2

\* epochs given to the instances: tabulated, interpolated, tabulated
HeapEpochs == { Yr(2000), HalfAfter(2011), Yr(2015) }

\* the class attribute schmidt_norm: one array for every instance
NormAddr == <<0, 0, "norm">>

\* the arrays of a table that the class reads once for all its instances
TableAddrOfClass(i, y, gh) == <<0, y, gh>>

\* c[year] = {'g': mat.copy(), 'h': mat.copy()} in the read_coefficients()
\* call made by the __init__ of instance i
TableAddr(i, y, gh) == <<i, y, gh>>

\* the array c0[gh] + dy*(c1[gh] - c0[gh]) made by the last set_year of
\* instance i that interpolated
WorkAddr(i, gh) == <<i, 0, gh>>

\* the arrays read_coefficients() returns to instance i
TableArrays(i) ==
    [a \in { TableAddr(i, y, gh) : y \in YearKeys, gh \in {"g", "h"} } |->
        read_coefficients[a[2]][a[3]]]

\* set_year(y) on instance i: the heap and the bindings it leaves
HeapSetYear(h, o, i, y) ==
    IF y \in YearKeys
    THEN LET ga == TableAddr(i, y, "g")
             ha == TableAddr(i, y, "h")
         IN  [heap |-> [h EXCEPT ![ga] = TimesNorm(h[ga], h[NormAddr]),
                                 ![ha] = TimesNorm(h[ha], h[NormAddr]),
                                 ![WorkAddr(i, "g")] = mat,
                                 ![WorkAddr(i, "h")] = mat],
              objs |-> [o EXCEPT ![i] = [year |-> y, gcoeff |-> ga, hcoeff |-> ha]]]
    ELSE LET yc == ClipYear(y, YearKeys)
             y0 == Y0(YearKeys, yc)
             y1 == Y1(YearKeys, y0)
             gw == WorkAddr(i, "g")
             hw == WorkAddr(i, "h")
         IN  [heap |-> [h EXCEPT
                          ![gw] = TimesNorm(Interp(h[TableAddr(i, y0, "g")],
                                                   h[TableAddr(i, y1, "g")], yc, y0, y1),
                                            h[NormAddr]),
                          ![hw] = TimesNorm(Interp(h[TableAddr(i, y0, "h")],
                                                   h[TableAddr(i, y1, "h")], yc, y0, y1),
                                            h[NormAddr])],
              objs |-> [o EXCEPT ![i] = [year |-> y, gcoeff |-> gw, hcoeff |-> hw]]]

\* the class body and the arrays of two instances before either set_year
HeapAtStart ==
    (NormAddr :> SchmidtNorm) @@ TableArrays(1) @@ TableArrays(2)
    @@ [a \in { WorkAddr(i, gh) : i \in Instances, gh \in {"g", "h"} } |-> mat]

\* no instance is followed by value
NoInstanceByValue ==
    /\ coefficients = <<>> /\ year = 0 /\ gcoeff = <<>> /\ hcoeff = <<>>
    /\ schmidt_norm = <<>> /\ result = <<>> /\ nset = 0 /\ fresh = TRUE

\* igrfModel(y1) then igrfModel(y2)
InitInstances ==
    \E y1 \in HeapEpochs, y2 \in HeapEpochs :
        LET o0 == [i \in Instances |-> [year |-> 0, gcoeff |-> NormAddr, hcoeff |-> NormAddr]]
            s1 == HeapSetYear(HeapAtStart, o0, 1, y1)
            s2 == HeapSetYear(s1.heap, s1.objs, 2, y2)
        IN  /\ heap = s2.heap
            /\ objs = s2.objs
            /\ call = [inst |-> 2, op |-> "__init__", year |-> y2, n |-> 0]
            /\ reader = <<>>
            /\ NoInstanceByValue

inst_set_year ==
    \E i \in Instances, y \in HeapEpochs :
        LET e == HeapSetYear(heap, objs, i, y)
        IN  /\ call.n < MaxInstanceCalls
            /\ heap' = e.heap
            /\ objs' = e.objs
            /\ call' = [inst |-> i, op |-> "set_year", year |-> y, n |-> call.n + 1]
            /\ UNCHANGED reader
            /\ UNCHANGED ovars

inst_spherical ==
    \E i \in Instances :
        /\ call.n < MaxInstanceCalls
        /\ reader' = Spherical(heap[objs[i].gcoeff], heap[objs[i].hcoeff], objs[i].year,
                               SphericalBase)
        /\ call' = [inst |-> i, op |-> "spherical", year |-> objs[i].year, n |-> call.n + 1]
        /\ UNCHANGED <<heap, objs>>
        /\ UNCHANGED ovars

NextInstances ==
    \/ inst_set_year
    \/ inst_spherical

SpecInstances == InitInstances /\ [][NextInstances]_vars

\* what instance i holds: its year, working coefficients and table, by value
InstanceView(h, o, i) ==
    [year |-> o[i].year, gcoeff |-> h[o[i].gcoeff], hcoeff |-> h[o[i].hcoeff],
     coefficients |-> [y \in YearKeys |-> [g |-> h[TableAddr(i, y, "g")],
                                           h |-> h[TableAddr(i, y, "h")]]]]

\* C16: a set_year call or a query on one instance leaves the table, gcoeff,
\* hcoeff and year of every other instance, and the class's schmidt_norm
\* array, as they were.
C16_InstancesIsolated ==
    [][/\ \A i \in Instances :
             call'.inst # i => InstanceView(heap', objs', i) = InstanceView(heap, objs, i)
       /\ heap'[NormAddr] = heap[NormAddr]]_vars

\* igrfModel(2011.5) and igrfModel(2015), then set_year(2000) on the first:
\* it wrote its own table entry of 2000, the second instance's entry is as read
C16_Witness ==
    /\ call.op = "set_year" /\ call.inst = 1 /\ call.year = Yr(2000) /\ call.n = 1
    /\ objs[2].year = Yr(2015)
    /\ heap[<<1, Yr(2000), "g">>][1][1] = 1728200
    /\ heap[<<2, Yr(2000), "g">>][1][1] = -1728200
    /\ heap[objs[2].gcoeff][1][1] = 1501000

-----------------------------------------------------------------------------
(* Properties of the derived quantities and of the end-to-end values *)

\* the quantities whose squares are summed under a square root
Summands(e) ==
    IF e.op = "sqrt(a^2+b^2+c^2)" THEN { e.a, e.b, e.c }
    ELSE IF e.op = "sqrt(a^2+b^2)" THEN { e.a, e.b }
    ELSE { e }

\* C17: geographic() returns field = sqrt(north^2 + east^2 + up^2),
\* horizontal = sqrt(north^2 + east^2), declination = atan2(east, north) and
\* inclination = atan2(up, horizontal) in degrees, of the north, east and up
\* it returns; so field^2 = horizontal^2 + up^2 and horizontal <= field.
C17_DerivedFromENU ==
    (result.op = "geographic" /\ result.status = "ok") =>
        LET f == result.value["field"]
        IN  /\ f["field"] = [op |-> "sqrt(a^2+b^2+c^2)",
                             a |-> f["north"], b |-> f["east"], c |-> f["up"]]
            /\ f["horizontal"] = [op |-> "sqrt(a^2+b^2)", a |-> f["north"], b |-> f["east"]]
            /\ f["declination"] = [op |-> "atan2(a,b)/dtor", a |-> f["east"], b |-> f["north"]]
            /\ f["inclination"] = [op |-> "atan2(a,b)/dtor", a |-> f["up"], b |-> f["horizontal"]]
            /\ Summands(f["field"]) = Summands(f["horizontal"]) \cup { f["up"] }
            /\ Summands(f["horizontal"]) \subseteq Summands(f["field"])

\* geographic(0, 45, 30) on igrfModel(2000): the declination is taken from the
\* east and north components rotated by psi
C17_Witness ==
    /\ nset = 0 /\ year = Yr(2000)
    /\ result.op = "geographic" /\ result.status = "ok"
    /\ result.args.kw = GeogMid /\ ~result.args.potential
    /\ result.value["field"]["declination"].a.op = "div"
    /\ result.value["field"]["declination"].b.op = "-a*cos(c)-b*sin(c)"
    /\ result.value["field"]["declination"].b.c = 3358
    /\ result.value["field"]["inclination"].b.op = "sqrt(a^2+b^2)"

-----------------------------------------------------------------------------
(* The field in numbers: igrfModel(2000) at the full degree, evaluated in    *)
(* fixed point.  Field values are in 0.001 nT; factors of order 1 are kept   *)
(* to 8 decimals.  Angles are the pole guard and whole quarter turns, where  *)
(* the trigonometric factors are exact.                                      *)

Base == 10000

Unit == Base * Base

\* v * w / Unit rounded down; every partial product stays within 32 bits
MulFx(v, w) ==
    LET vh == v \div Base
        vl == v % Base
        wh == w \div Base
        wl == w % Base
    IN  vh * wh + ((vh * wl + vl * wh) + (vl * wl) \div Base) \div Base

\* (a*Base + b)^2 <= Base^2 * (a^2 + d), halved so that it fits 32 bits
Fits(a, d, b) == a * b + (b * b + 2 * Base - 1) \div (2 * Base) <= (Base \div 2) * d

NextDigit(a, d) ==
    CHOOSE b \in 0 .. (Base - 1) :
        Fits(a, d, b) /\ (b < Base - 1 => ~Fits(a, d, b + 1))

\* np.sqrt(k) in units of 1/Unit, rounded down, two base-Base digits at a time
SqrtFx(k) ==
    LET a0 == CHOOSE s \in 0 .. 5 : s * s <= k /\ k < (s + 1) * (s + 1)
        d0 == k - a0 * a0
        b1 == NextDigit(a0, d0)
        a1 == a0 * Base + b1
        d1 == Unit * d0 - 2 * Base * a0 * b1 - b1 * b1
    IN  a1 * Base + NextDigit(a1, d1)

\* spherical(degree=14)
Degree == 14

Root == [k \in 0 .. (2 * Degree) |-> SqrtFx(k)]

\* floor(a * Unit / b) for 0 <= a <= b, by long division
RECURSIVE LongDiv(_, _, _, _)
LongDiv(q, rem, b, digits) ==
    IF digits = 0 THEN q
    ELSE LongDiv(10 * q + (10 * rem) \div b, (10 * rem) % b, b, digits - 1)

DivFx(a, b) == LongDiv(a \div b, a % b, b, 8)

RECURSIVE PowFx(_, _)
PowFx(x, k) == IF k = 0 THEN Unit ELSE MulFx(PowFx(x, k - 1), x)

\* the 2000.0 column of the 12th-generation table, all degrees
Column2000 ==
    <<
      <<"g", 1, 0, -29619400>>, <<"g", 1, 1, -1728200>>, <<"h", 1, 1, 5186100>>, <<"g", 2, 0, -2267700>>,
      <<"g", 2, 1, 3068400>>, <<"h", 2, 1, -2481600>>, <<"g", 2, 2, 1670900>>, <<"h", 2, 2, -458000>>,
      <<"g", 3, 0, 1339600>>, <<"g", 3, 1, -2288000>>, <<"h", 3, 1, -227600>>, <<"g", 3, 2, 1252100>>,
      <<"h", 3, 2, 293400>>, <<"g", 3, 3, 714500>>, <<"h", 3, 3, -491100>>, <<"g", 4, 0, 932300>>,
      <<"g", 4, 1, 786800>>, <<"h", 4, 1, 272600>>, <<"g", 4, 2, 250000>>, <<"h", 4, 2, -231900>>,
      <<"g", 4, 3, -403000>>, <<"h", 4, 3, 119800>>, <<"g", 4, 4, 111300>>, <<"h", 4, 4, -303800>>,
      <<"g", 5, 0, -218800>>, <<"g", 5, 1, 351400>>, <<"h", 5, 1, 43800>>, <<"g", 5, 2, 222300>>,
      <<"h", 5, 2, 171900>>, <<"g", 5, 3, -130400>>, <<"h", 5, 3, -133100>>, <<"g", 5, 4, -168600>>,
      <<"h", 5, 4, -39300>>, <<"g", 5, 5, -12900>>, <<"h", 5, 5, 106300>>, <<"g", 6, 0, 72300>>,
      <<"g", 6, 1, 68200>>, <<"h", 6, 1, -17400>>, <<"g", 6, 2, 74200>>, <<"h", 6, 2, 63700>>,
      <<"g", 6, 3, -160900>>, <<"h", 6, 3, 65100>>, <<"g", 6, 4, -5900>>, <<"h", 6, 4, -61200>>,
      <<"g", 6, 5, 16900>>, <<"h", 6, 5, 700>>, <<"g", 6, 6, -90400>>, <<"h", 6, 6, 43800>>,
      <<"g", 7, 0, 79000>>, <<"g", 7, 1, -74000>>, <<"h", 7, 1, -64600>>, <<"g", 7, 2, 0>>,
      <<"h", 7, 2, -24200>>, <<"g", 7, 3, 33300>>, <<"h", 7, 3, 6200>>, <<"g", 7, 4, 9100>>,
      <<"h", 7, 4, 24000>>, <<"g", 7, 5, 6900>>, <<"h", 7, 5, 14800>>, <<"g", 7, 6, 7300>>,
      <<"h", 7, 6, -25400>>, <<"g", 7, 7, -1200>>, <<"h", 7, 7, -5800>>, <<"g", 8, 0, 24400>>,
      <<"g", 8, 1, 6600>>, <<"h", 8, 1, 11900>>, <<"g", 8, 2, -9200>>, <<"h", 8, 2, -21500>>,
      <<"g", 8, 3, -7900>>, <<"h", 8, 3, 8500>>, <<"g", 8, 4, -16600>>, <<"h", 8, 4, -21500>>,
      <<"g", 8, 5, 9100>>, <<"h", 8, 5, 15500>>, <<"g", 8, 6, 7000>>, <<"h", 8, 6, 8900>>,
      <<"g", 8, 7, -7900>>, <<"h", 8, 7, -14900>>, <<"g", 8, 8, -7000>>, <<"h", 8, 8, -2100>>,
      <<"g", 9, 0, 5000>>, <<"g", 9, 1, 9400>>, <<"h", 9, 1, -19700>>, <<"g", 9, 2, 3000>>,
      <<"h", 9, 2, 13400>>, <<"g", 9, 3, -8400>>, <<"h", 9, 3, 12500>>, <<"g", 9, 4, 6300>>,
      <<"h", 9, 4, -6200>>, <<"g", 9, 5, -8900>>, <<"h", 9, 5, -8400>>, <<"g", 9, 6, -1500>>,
      <<"h", 9, 6, 8400>>, <<"g", 9, 7, 9300>>, <<"h", 9, 7, 3800>>, <<"g", 9, 8, -4300>>,
      <<"h", 9, 8, -8200>>, <<"g", 9, 9, -8200>>, <<"h", 9, 9, 4800>>, <<"g", 10, 0, -2600>>,
      <<"g", 10, 1, -6000>>, <<"h", 10, 1, 1700>>, <<"g", 10, 2, 1700>>, <<"h", 10, 2, 0>>,
      <<"g", 10, 3, -3100>>, <<"h", 10, 3, 4000>>, <<"g", 10, 4, -500>>, <<"h", 10, 4, 4900>>,
      <<"g", 10, 5, 3700>>, <<"h", 10, 5, -5900>>, <<"g", 10, 6, 1000>>, <<"h", 10, 6, -1200>>,
      <<"g", 10, 7, 2000>>, <<"h", 10, 7, -2900>>, <<"g", 10, 8, 4200>>, <<"h", 10, 8, 200>>,
      <<"g", 10, 9, 300>>, <<"h", 10, 9, -2200>>, <<"g", 10, 10, -1100>>, <<"h", 10, 10, -7400>>,
      <<"g", 11, 0, 2700>>, <<"g", 11, 1, -1700>>, <<"h", 11, 1, 100>>, <<"g", 11, 2, -1900>>,
      <<"h", 11, 2, 1300>>, <<"g", 11, 3, 1500>>, <<"h", 11, 3, -900>>, <<"g", 11, 4, -100>>,
      <<"h", 11, 4, -2600>>, <<"g", 11, 5, 100>>, <<"h", 11, 5, 900>>, <<"g", 11, 6, -700>>,
      <<"h", 11, 6, -700>>, <<"g", 11, 7, 700>>, <<"h", 11, 7, -2800>>, <<"g", 11, 8, 1700>>,
      <<"h", 11, 8, -900>>, <<"g", 11, 9, 100>>, <<"h", 11, 9, -1200>>, <<"g", 11, 10, 1200>>,
      <<"h", 11, 10, -1900>>, <<"g", 11, 11, 4000>>, <<"h", 11, 11, -900>>, <<"g", 12, 0, -2200>>,
      <<"g", 12, 1, -300>>, <<"h", 12, 1, -400>>, <<"g", 12, 2, 200>>, <<"h", 12, 2, 300>>,
      <<"g", 12, 3, 900>>, <<"h", 12, 3, 2500>>, <<"g", 12, 4, -200>>, <<"h", 12, 4, -2600>>,
      <<"g", 12, 5, 900>>, <<"h", 12, 5, 700>>, <<"g", 12, 6, -500>>, <<"h", 12, 6, 300>>,
      <<"g", 12, 7, 300>>, <<"h", 12, 7, 0>>, <<"g", 12, 8, -300>>, <<"h", 12, 8, 0>>,
      <<"g", 12, 9, -400>>, <<"h", 12, 9, 300>>, <<"g", 12, 10, -100>>, <<"h", 12, 10, -900>>,
      <<"g", 12, 11, -200>>, <<"h", 12, 11, -400>>, <<"g", 12, 12, -400>>, <<"h", 12, 12, 800>>,
      <<"g", 13, 0, -200>>, <<"g", 13, 1, -900>>, <<"h", 13, 1, -900>>, <<"g", 13, 2, 300>>,
      <<"h", 13, 2, 200>>, <<"g", 13, 3, 100>>, <<"h", 13, 3, 1800>>, <<"g", 13, 4, -400>>,
      <<"h", 13, 4, -400>>, <<"g", 13, 5, 1300>>, <<"h", 13, 5, -1000>>, <<"g", 13, 6, -400>>,
      <<"h", 13, 6, -100>>, <<"g", 13, 7, 700>>, <<"h", 13, 7, 700>>, <<"g", 13, 8, -400>>,
      <<"h", 13, 8, 300>>, <<"g", 13, 9, 300>>, <<"h", 13, 9, 600>>, <<"g", 13, 10, -100>>,
      <<"h", 13, 10, 300>>, <<"g", 13, 11, 400>>, <<"h", 13, 11, -200>>, <<"g", 13, 12, 0>>,
      <<"h", 13, 12, -500>>, <<"g", 13, 13, 100>>, <<"h", 13, 13, -900>>
    >>

\* c[2000]['g'] and c[2000]['h'] as read_coefficients fills them: [m][n]
Table2000(gh) ==
    [m \in 0 .. Degree |-> [n \in 0 .. Degree |->
        IF \E i \in 1 .. Len(Column2000) :
              Column2000[i][1] = gh /\ Column2000[i][2] = n /\ Column2000[i][3] = m
        THEN LET i == CHOOSE i \in 1 .. Len(Column2000) :
                        Column2000[i][1] = gh /\ Column2000[i][2] = n /\ Column2000[i][3] = m
             IN  Column2000[i][4]
        ELSE 0]]

G2000 == Table2000("g")

H2000 == Table2000("h")

\* sqrt(n(n+1)/2): what schmidt_norm[1,n] * Pmn[1,n] / sin(theta) tends to at the pole
Weight(n) == MulFx(MulFx(Root[n], Root[n + 1]) \div 2, Root[2])

\* schmidt_norm[m,n] * Pmn[m,n] at z = np.cos(pi/2): the sectoral term from the
\* one before it, the others by the three-term recurrence, whose middle term
\* carries the factor z = 0
RECURSIVE SchmidtEquator(_, _)
SchmidtEquator(m, n) ==
    IF n < m THEN 0
    ELSE IF n = m
    THEN IF m <= 1 THEN Unit
         ELSE MulFx(MulFx(SchmidtEquator(m - 1, m - 1), Root[2 * m - 1]) \div (2 * m),
                    Root[2 * m])
    ELSE IF n = m + 1 THEN 0
    ELSE -MulFx(MulFx(MulFx(MulFx(SchmidtEquator(m, n - 2), Root[n - 1 - m]) \div (n - m),
                            Root[n - m]),
                      Root[n - 1 + m]) \div (n + m),
                Root[n + m])

\* schmidt_norm * dPmn after line 214, at theta = pi/2
SchmidtEquatorSlope(m, n) ==
    IF n <= m THEN 0
    ELSE -MulFx(MulFx(SchmidtEquator(m, n - 1), Root[n - m]), Root[n + m])

\* spFunc.lpmn at the two colatitudes queried, each entry times schmidt_norm[m,n]
\* (lines 97-98 put that factor on the coefficients; here it stays with the
\* function, where the product is of order 1): Pmn, Pmn / np.sin(theta) and dPmn.
\* At theta = 1.0e-6 the entries are taken to first order in theta.
EquatorPmn ==
    [Pmn |-> [m \in 0 .. Degree |-> [n \in 0 .. Degree |-> SchmidtEquator(m, n)]],
     PmnOverSin |-> [m \in 0 .. Degree |-> [n \in 0 .. Degree |-> SchmidtEquator(m, n)]],
     dPmn |-> [m \in 0 .. Degree |-> [n \in 0 .. Degree |-> SchmidtEquatorSlope(m, n)]]]

PolePmn ==
    [Pmn |-> [m \in 0 .. Degree |-> [n \in 0 .. Degree |-> IF m = 0 THEN Unit ELSE 0]],
     PmnOverSin |-> [m \in 0 .. Degree |-> [n \in 0 .. Degree |->
                        IF m = 1 /\ n >= 1 THEN Weight(n) ELSE 0]],
     dPmn |-> [m \in 0 .. Degree |-> [n \in 0 .. Degree |->
                  IF m = 0 THEN -((Unit \div 1000000) * Eps * ((n * (n + 1)) \div 2))
                  ELSE IF m = 1 /\ n >= 1 THEN Weight(n)
                  ELSE 0]]]

Lpmn(theta) == IF theta = PiHalf THEN EquatorPmn ELSE PolePmn

\* np.cos and np.sin of a whole number of quarter turns
Quarter(angle) == angle \div PiHalf

CosTurn(k) == IF k % 4 = 0 THEN 1 ELSE IF k % 4 = 2 THEN -1 ELSE 0

SinTurn(k) == IF k % 4 = 1 THEN 1 ELSE IF k % 4 = 3 THEN -1 ELSE 0

RECURSIVE SumFx(_, _)
SumFx(f, k) == IF k < 0 THEN 0 ELSE f[k] + SumFx(f, k - 1)

\* a theta component that drops the sign of line 240
ThetaOfUnsigned(msum) == msum

\* field.update( theta = -msum.dot( rfactor ) )
ThetaOf(msum) == -msum

\* spherical(r, theta, phi, degree) with potential=False, in numbers
SphericalFx(g, h, yr, a) ==
    LET theta == ClipTheta(a.theta)
        L == Lpmn(theta)
        deg == 0 .. a.degree
        rradius == DivFx(Re, a.r)
        rfactor == [n \in deg |-> PowFx(rradius, n + 2)]
        cphi == [m \in deg |-> CosTurn(m * Quarter(a.phi))]
        sphi == [m \in deg |-> SinTurn(m * Quarter(a.phi))]
        \* Gmn.T.dot( cphi ) + Hmn.T.dot( sphi )
        msumP == [n \in deg |-> SumFx([m \in deg |->
                     MulFx(g[m][n] * cphi[m] + h[m][n] * sphi[m], L.Pmn[m][n])], a.degree)]
        \* -Gmn.T.dot( mm*sphi ) + Hmn.T.dot( mm*cphi ), each entry over np.sin(theta)
        msumQ == [n \in deg |-> SumFx([m \in deg |->
                     MulFx(m * (h[m][n] * cphi[m] - g[m][n] * sphi[m]),
                           L.PmnOverSin[m][n])], a.degree)]
        \* (gg*dPmn).T.dot( cphi ) + (hh*dPmn).T.dot( sphi )
        msumD == [n \in deg |-> SumFx([m \in deg |->
                     MulFx(g[m][n] * cphi[m] + h[m][n] * sphi[m], L.dPmn[m][n])], a.degree)]
        Br == SumFx([n \in deg |-> (n + 1) * MulFx(msumP[n], rfactor[n])], a.degree)
        Bphi == SumFx([n \in deg |-> MulFx(msumQ[n], rfactor[n])], a.degree)
        Btheta == SumFx([n \in deg |-> MulFx(msumD[n], rfactor[n])], a.degree)
        field == "r" :> Br @@ "phi" :> -Bphi @@ "theta" :> ThetaOf(Btheta)
    IN  Returned("spherical", a,
                 "field" :> field
                 @@ "position" :> ("r" :> Some(a.r) @@ "theta" :> Some(theta)
                                     @@ "phi" :> Some(a.phi))
                 @@ "_" :> [name |-> "IGRF magnetic field model", units |-> "nanoTesla",
                            year |-> yr])

\* the call geographic() makes at line 274
SphericalCall(coords) ==
    [r |-> coords["r"], theta |-> coords["theta"], phi |-> coords["phi"], degree |-> Degree]

\* lines 275-278: north, east and up from the spherical components f
ENU(a, psi, f) ==
    Returned("geographic", a,
             "field" :> (f @@ "east" :> f["phi"]
                           @@ "north" :> (-f["theta"] * CosTurn(Quarter(psi))
                                            - f["r"] * SinTurn(Quarter(psi)))
                           @@ "up" :> -(f["theta"] * SinTurn(Quarter(psi))
                                          - f["r"] * CosTurn(Quarter(psi)))))

\* geographic(height, latitude, longitude), in numbers: north, east and up
GeographicFx(g, h, yr, a) ==
    ENU(a, GeogToSph(a.height, a.latitude, a.longitude)["psi"],
        SphericalFx(g, h, yr,
                    SphericalCall(GeogToSph(a.height, a.latitude, a.longitude))).value["field"])

\* test_spherical and test_geographic: the pole and the equator, every quarter
\* turn of longitude, every truncation degree
EndToEndInputs ==
    { [r |-> Re, theta |-> t, phi |-> p, degree |-> d] :
          t \in { 0, PiHalf }, p \in { -PiHalf, 0, PiHalf, Pi }, d \in 1 .. Degree }

GeodeticInputs == { [height |-> 0, latitude |-> 0, longitude |-> 0] }

\* igrfModel(2000); gcoeff and hcoeff hold c[2000] without the Schmidt factor,
\* which Lpmn carries
InitEndToEnd ==
    /\ coefficients = <<>>
    /\ gcoeff = G2000
    /\ hcoeff = H2000
    /\ year = Yr(2000)
    /\ schmidt_norm = <<>>
    /\ result = NoneResult("__init__", <<Yr(2000)>>)
    /\ nset = 0
    /\ fresh = TRUE
    /\ NoHeap

spherical_fx == \E a \in EndToEndInputs : Query(SphericalFx(gcoeff, hcoeff, year, a))

geographic_fx == \E a \in GeodeticInputs : Query(GeographicFx(gcoeff, hcoeff, year, a))

NextEndToEnd ==
    \/ spherical_fx
    \/ geographic_fx

SpecEndToEnd == InitEndToEnd /\ [][NextEndToEnd]_vars


-----------------------------------------------------------------------------
(* End-to-end values *)

PoleCall == [r |-> Re, theta |-> 0, phi |-> 0, degree |-> Degree]

OriginCall == [height |-> 0, latitude |-> 0, longitude |-> 0]

\* |x - v| <= 1 nT
Within1nT(x, v) == Abs(x - v) <= 1000

C19_GeographicAtOrigin ==
    (result.op = "geographic" /\ result.args = OriginCall) =>
        LET f == result.value["field"]
        IN  /\ Within1nT(f["north"], 27464900)
            /\ Within1nT(f["east"], -3504200)
            /\ Within1nT(f["up"], 14827800)

C19_Witness ==
    /\ result.op = "geographic"
    /\ result.args = OriginCall
    /\ result.value["field"]["north"] = -result.value["field"]["theta"]
    /\ result.value["field"]["up"] > 0


-----------------------------------------------------------------------------
(* set_year and spherical on one instance from two threads, statement by     *)
(* statement.  call is the thread inside set_year, reader the thread inside  *)
(* spherical; the interpreter may switch threads between any two statements. *)
(* An in-place product of one array is taken as one step.                    *)

\* set_year calls made after the construction
MaxRaceCalls == 2

\* the array the k-th set_year makes in line 94 or 95: a new object every time
RaceWorkAddr(k, gh) == <<1, -k, gh>>

\* a set_year and a spherical that hold one lock for the whole call
MayStepUnderLock(other) == other \in { "idle", "done" }

\* neither method takes a lock: a statement never waits for the other thread
MayStep(other) == TRUE

\* the arrays self.gcoeff and self.hcoeff are bound to, by value
Pair(h, o) == <<h[o[1].gcoeff], h[o[1].hcoeff]>>

InFlight(pc) == pc \notin { "idle", "done" }

\* the spherical in flight has run beside a statement of set_year
Seen(r) == IF InFlight(r.pc) THEN [r EXCEPT !.overlapped = TRUE] ELSE r

\* igrfModel(y1); stable collects the pairs held between calls
InitRace ==
    \E y1 \in HeapEpochs :
        LET o0 == [i \in {1} |-> [year |-> 0, gcoeff |-> NormAddr, hcoeff |-> NormAddr]]
            s == HeapSetYear(HeapAtStart, o0, 1, y1)
        IN  /\ heap = s.heap
            /\ objs = s.objs
            /\ call = [pc |-> "idle", year |-> y1, n |-> 0, stable |-> { Pair(s.heap, s.objs) }]
            /\ reader = [pc |-> "idle", gg |-> <<>>, hh |-> <<>>, G |-> <<>>, H |-> <<>>,
                         Gd |-> <<>>, Hd |-> <<>>, overlapped |-> FALSE]
            /\ NoInstanceByValue

\* line 81: self.year = year
set_year_81 ==
    \E y \in HeapEpochs :
        /\ call.pc = "idle" /\ call.n < MaxRaceCalls /\ MayStep(reader.pc)
        /\ objs' = [objs EXCEPT ![1].year = y]
        /\ call' = [call EXCEPT !.pc = "gcoeff", !.year = y, !.n = @ + 1]
        /\ reader' = Seen(reader)
        /\ UNCHANGED heap
        /\ UNCHANGED ovars

\* the array line 84 binds, or the one line 94 makes, for gh
Bound(h, y, k, gh) ==
    IF y \in YearKeys
    THEN [heap |-> h, addr |-> TableAddr(1, y, gh)]
    ELSE LET yc == ClipYear(y, YearKeys)
             y0 == Y0(YearKeys, yc)
             y1 == Y1(YearKeys, y0)
         IN  [heap |-> h @@ (RaceWorkAddr(k, gh) :>
                                Interp(h[TableAddr(1, y0, gh)], h[TableAddr(1, y1, gh)],
                                       yc, y0, y1)),
              addr |-> RaceWorkAddr(k, gh)]

\* line 84 or 94: self.gcoeff = ...
set_year_gcoeff ==
    LET b == Bound(heap, call.year, call.n, "g")
    IN  /\ call.pc = "gcoeff" /\ MayStep(reader.pc)
        /\ heap' = b.heap
        /\ objs' = [objs EXCEPT ![1].gcoeff = b.addr]
        /\ call' = [call EXCEPT !.pc = "hcoeff"]
        /\ reader' = Seen(reader)
        /\ UNCHANGED ovars

\* line 85 or 95: self.hcoeff = ...
set_year_hcoeff ==
    LET b == Bound(heap, call.year, call.n, "h")
    IN  /\ call.pc = "hcoeff" /\ MayStep(reader.pc)
        /\ heap' = b.heap
        /\ objs' = [objs EXCEPT ![1].hcoeff = b.addr]
        /\ call' = [call EXCEPT !.pc = "97"]
        /\ reader' = Seen(reader)
        /\ UNCHANGED ovars

\* line 97: self.gcoeff *= self.schmidt_norm
set_year_97 ==
    /\ call.pc = "97" /\ MayStep(reader.pc)
    /\ heap' = [heap EXCEPT ![objs[1].gcoeff] = TimesNorm(@, heap[NormAddr])]
    /\ call' = [call EXCEPT !.pc = "98"]
    /\ reader' = Seen(reader)
    /\ UNCHANGED objs
    /\ UNCHANGED ovars

\* line 98: self.hcoeff *= self.schmidt_norm, and the return
set_year_98 ==
    /\ call.pc = "98" /\ MayStep(reader.pc)
    /\ heap' = [heap EXCEPT ![objs[1].hcoeff] = TimesNorm(@, heap[NormAddr])]
    /\ call' = [call EXCEPT !.pc = "idle", !.stable = @ \cup { Pair(heap', objs) }]
    /\ reader' = Seen(reader)
    /\ UNCHANGED objs
    /\ UNCHANGED ovars

\* one statement of spherical: reader moves from pc to next with field f set to v
ReaderStep(pc, next, f, v) ==
    /\ reader.pc = pc /\ MayStep(call.pc)
    /\ reader' = [reader EXCEPT !.pc = next, ![f] = v,
                                !.overlapped = @ \/ call.pc # "idle"]
    /\ UNCHANGED <<heap, objs, call>>
    /\ UNCHANGED ovars

\* line 219, first element: gg = self.gcoeff[0:degree+1,0:degree+1], a view
spherical_219 ==
    /\ reader.pc \in { "idle", "done" } /\ MayStep(call.pc)
    /\ reader' = [pc |-> "219h", gg |-> objs[1].gcoeff, hh |-> <<>>, G |-> <<>>, H |-> <<>>,
                  Gd |-> <<>>, Hd |-> <<>>, overlapped |-> call.pc # "idle"]
    /\ UNCHANGED <<heap, objs, call>>
    /\ UNCHANGED ovars

\* line 219, second element: hh = self.hcoeff[0:degree+1,0:degree+1]
spherical_219h == ReaderStep("219h", "220g", "hh", objs[1].hcoeff)

\* line 220: Gmn, Hmn = gg * Pmn , hh * Pmn
spherical_220g == ReaderStep("220g", "220h", "G", heap[reader.gg])

spherical_220h == ReaderStep("220h", "239g", "H", heap[reader.hh])

\* line 239: (gg*dPmn).T.dot( cphi ) + (hh*dPmn).T.dot( sphi )
spherical_239g == ReaderStep("239g", "239h", "Gd", heap[reader.gg])

spherical_239h == ReaderStep("239h", "done", "Hd", heap[reader.hh])

SphericalNext ==
    \/ spherical_219
    \/ spherical_219h
    \/ spherical_220g
    \/ spherical_220h
    \/ spherical_239g
    \/ spherical_239h

NextRace ==
    \/ set_year_81
    \/ set_year_gcoeff
    \/ set_year_hcoeff
    \/ set_year_97
    \/ set_year_98
    \/ SphericalNext

SpecRace == InitRace /\ [][NextRace]_vars

\* the coefficients a finished spherical used are not a pair the instance held
\* between calls, or its two readings of them differ
Torn(r) ==
    \/ <<r.G, r.H>> \notin call.stable
    \/ <<r.Gd, r.Hd>> \notin call.stable
    \/ <<r.G, r.H>> # <<r.Gd, r.Hd>>

\* C20: set_year is not atomic for a spherical on the same instance: no lock
\* keeps a spherical from running its next statement while a set_year is under
\* way, and the pairs (gcoeff, hcoeff) that are no coefficient set held between
\* calls are read by, and only by, a spherical that ran beside a set_year.
C20_SetYearNotAtomic ==
    /\ ENABLED SphericalNext
    /\ (reader.pc = "done" /\ Torn(reader)) => reader.overlapped

\* igrfModel(y1) and set_year(2000) from the other thread: a spherical that read
\* both arrays between lines 97 and 98 has the normalized g of 2000 with the
\* un-normalized h of 2000
C20_Witness ==
    /\ reader.pc = "done" /\ reader.overlapped
    /\ call.pc = "98" /\ call.n = 1 /\ objs[1].year = Yr(2000)
    /\ \A p \in call.stable : p[1][1][1] # 1728200
    /\ <<reader.G, reader.H>> \notin call.stable
    /\ reader.G[1][1] = 1728200
    /\ reader.H[1][1] = 5186100


-----------------------------------------------------------------------------
(* Properties of re-configuration and of the table layout *)

\* C21: after any sequence of set_year calls, gcoeff and hcoeff are what a
\* freshly constructed instance configured at the last epoch holds.
C21_HistoryIndependent ==
    /\ gcoeff = FreshResolve(year).gcoeff
    /\ hcoeff = FreshResolve(year).hcoeff


\* the keys y0 and y1 that set_year brackets a year outside the keys with
Bracket(y) ==
    LET y0 == Y0(YearKeys, ClipYear(y, YearKeys))
    IN  <<y0, Y1(YearKeys, y0)>>

\* C22: for a year that is no key, y1 = y0 exactly when the clamped year is the
\* last key; set_year then returns normally with gcoeff and hcoeff the
\* normalized set stored at that key, in arrays of their own: the table is as
\* it was before the call.
C22_DegenerateSpan ==
    [][(nset' = nset + 1 /\ year' \notin YearKeys) =>
          /\ (Bracket(year')[2] = Bracket(year')[1])
                <=> (ClipYear(year', YearKeys) = SetMax(YearKeys))
          /\ (Bracket(year')[2] = Bracket(year')[1]) =>
                /\ result'.status = "ok"
                /\ gcoeff' = TimesNorm(coefficients[Bracket(year')[1]].g, schmidt_norm)
                /\ hcoeff' = TimesNorm(coefficients[Bracket(year')[1]].h, schmidt_norm)
                /\ coefficients' = coefficients]_vars

\* set_year(2026), the clock's year, after construction: y0 = y1 = 2020, the
\* working set is the normalized 2020 entry and the entry itself is as read
C22_Witness ==
    /\ nset > 0 /\ year = Yr(2026) /\ result.op = "set_year" /\ result.status = "ok"
    /\ Bracket(year) = <<YTop, YTop>>
    /\ gcoeff[1][1] = - coefficients[YTop].g[1][1]
    /\ coefficients[YTop].g[1][1] = read_coefficients[YTop].g[1][1]


\* an array indexed [m,n] that is zero above the diagonal m = n and in the
\* columns of degree 0 and of the top degree Dim - 1
Layout(c) ==
    \A m \in Idx : \A n \in Idx : (m > n \/ n = 0 \/ n = Dim - 1) => c[m][n] = 0

ZeroOrder(c) == \A n \in Idx : c[0][n] = 0

\* the terms a returned field sums
SummedTerms(res) == res.value["field"]["r"].terms

\* C23: every table entry, gcoeff and hcoeff keep the triangular layout (zero
\* for m > n, for degree 0 and the top degree, and for h at m = 0) after any
\* sequence of set_year calls, and a returned field sums only terms with
\* 0 <= m <= n below the top degree.
C23_TriangularLayout ==
    /\ \A y \in YearKeys :
          /\ Layout(coefficients[y].g)
          /\ Layout(coefficients[y].h) /\ ZeroOrder(coefficients[y].h)
    /\ Layout(gcoeff)
    /\ Layout(hcoeff) /\ ZeroOrder(hcoeff)
    /\ (result.op = "spherical" /\ result.status = "ok" /\ result.args.r # 0) =>
          \A t \in SummedTerms(result) : t[1] <= t[2] /\ 1 <= t[2] /\ t[2] <= Dim - 2

\* a full-degree spherical() after a set_year on a tabulated epoch that follows
\* a construction which normalized a table entry in place: the sectoral term
\* (1, 1) is summed
C23_Witness ==
    /\ nset >= 1 /\ ~fresh /\ year \in YearKeys
    /\ result.op = "spherical" /\ result.status = "ok"
    /\ result.args.degree = Dim - 1
    /\ \E t \in SummedTerms(result) : t[1] = 1 /\ t[2] = 1 /\ t[3] # 0 /\ t[4] # 0


\* spherical() on the configured coefficients with the degree replaced
AtDegree(a, d) == Spherical(gcoeff, hcoeff, year, [a EXCEPT !.degree = d])

\* C24: at every configured epoch and position, spherical() at the top degree
\* Dim - 1 (the default) returns the same field and potential as at the highest
\* tabulated degree Dim - 2, and at a degree d below that it sums exactly the
\* terms with n <= d.
C24_DefaultDegreeEquivalent ==
    /\ \A a \in SphericalInputs :
          LET p == [a EXCEPT !.potential = TRUE]
          IN  /\ AtDegree(p, Dim - 1).status = "ok"
              /\ AtDegree(p, Dim - 1).value = AtDegree(p, Dim - 2).value
              /\ p.r # 0 =>
                    \A d \in 0 .. (Dim - 2) :
                        SummedTerms(AtDegree(p, d))
                          = { t \in SummedTerms(AtDegree(p, Dim - 1)) : t[2] <= d }
    /\ (result.op = "spherical" /\ result.status = "ok"
          /\ result.args.degree = Dim - 2) =>
             result.value = AtDegree(result.args, Dim - 1).value

\* spherical(degree = Dim - 2) has returned a field with terms after a set_year
C24_Witness ==
    /\ nset >= 1
    /\ result.op = "spherical" /\ result.status = "ok"
    /\ result.args.degree = Dim - 2
    /\ SummedTerms(result) # {}
    /\ SummedTerms(AtDegree(result.args, 0)) = {}


\* keyword arguments that name r, theta, phi and nothing else
OnlySpherical(kw) == DOMAIN kw = {"r", "theta", "phi"} /\ \A k \in DOMAIN kw : kw[k] # None

\* C25: convert_coordinates with a complete spherical triple and nothing else
\* returns r, theta, phi as given whatever the cartesian and geographic flags;
\* with cartesian it also returns x = r sin(theta) cos(phi), y = r sin(theta)
\* sin(phi), z = r cos(theta), and the geographic flag adds no entry.
C25_SphericalTriplePassesThrough ==
    (/\ result.op = "convert_coordinates"
     /\ OnlySpherical(result.args.kw)
     /\ result.args.spherical) =>
        LET kw == result.args.kw
            v == result.value
        IN  /\ result.status = "ok"
            /\ v["r"] = kw["r"][1] /\ v["theta"] = kw["theta"][1] /\ v["phi"] = kw["phi"][1]
            /\ DOMAIN v = IF result.args.cartesian
                          THEN {"r", "theta", "phi", "x", "y", "z"}
                          ELSE {"r", "theta", "phi"}
            /\ result.args.cartesian =>
                  /\ kw["theta"][1] = 0 => (v["x"] = 0 /\ v["y"] = 0 /\ v["z"] = kw["r"][1])
                  /\ (kw["theta"][1] = PiHalf /\ kw["phi"][1] = PiHalf) =>
                        (v["x"] = 0 /\ v["y"] = kw["r"][1] /\ v["z"] = 0)

\* convert_coordinates(cartesian=True, geographic=True, r=Re, theta=0, phi=0) has
\* returned the pole with z = Re
C25_Witness ==
    /\ result.op = "convert_coordinates" /\ result.status = "ok"
    /\ result.args.kw = SpherAtPole
    /\ result.args.spherical /\ result.args.cartesian /\ result.args.geographic
    /\ result.value["z"] = Re /\ result.value["r"] = Re


\* the value the row (gh, n, m) of the embedded table holds in column indx
RowValue(gh, m, n, indx) ==
    IF \E i \in RowsRead : CoeffRows[i].gh = gh /\ CoeffRows[i].n = n /\ CoeffRows[i].m = m
    THEN LET i == CHOOSE i \in RowsRead :
                    CoeffRows[i].gh = gh /\ CoeffRows[i].n = n /\ CoeffRows[i].m = m
         IN  CoeffRows[i].val[indx]
    ELSE 0

\* C26: once the constructor has returned, the table's keys are the 25 years
\* 1900, 1905, ..., 2020 and the entry of 2020 is the 2015 column of the
\* 12th-generation table plus its secular-variation column, added once.
C26_TerminalEntryAfterConstruction ==
    result.op = "__init__" =>
        /\ DOMAIN coefficients = { Yr(1900 + 5 * k) : k \in 0 .. 24 }
        /\ \A m \in Idx : \A n \in Idx :
              /\ coefficients[YTop].g[m][n] = RowValue("g", m, n, 24) + RowValue("g", m, n, 25)
              /\ coefficients[YTop].h[m][n] = RowValue("h", m, n, 24) + RowValue("h", m, n, 25)


\* the year a returned result reports, if it carries metadata
ReportsYear(res) ==
    /\ res.op \in {"spherical", "geographic", "cartesian"}
    /\ res.status = "ok"
    /\ "_" \in DOMAIN res.value

\* C27: set_year(e) stores e itself in self.year, every later query leaves it
\* and reports it in its metadata, and for e outside the table's range the
\* working sets are those of the clamped epoch, which differs from e.
C27_YearAsRequested ==
    [][/\ nset' = nset + 1 =>
            /\ year' = result'.args[1]
            /\ year' \notin SetMin(YearKeys) .. SetMax(YearKeys) =>
                  /\ ClipYear(year', YearKeys) # year'
                  /\ gcoeff' = TimesNorm(coefficients'[ClipYear(year', YearKeys)].g,
                                         schmidt_norm)
                  /\ hcoeff' = TimesNorm(coefficients'[ClipYear(year', YearKeys)].h,
                                         schmidt_norm)
       /\ nset' = nset =>
            /\ year' = year
            /\ ReportsYear(result') => result'.value["_"].year = year]_vars

\* geographic() after set_year(2021) reports 2021 on the coefficients of 2020
C27_Witness ==
    /\ nset >= 1 /\ year = Yr(2021)
    /\ result.op = "geographic" /\ ReportsYear(result)
    /\ result.value["_"].year = Yr(2021)
    /\ gcoeff = TimesNorm(coefficients[Yr(2020)].g, schmidt_norm)


\* the triple of kw under the three names, None for a name not given
TripleOf(kw, names) == <<Pop(kw, names[1]), Pop(kw, names[2]), Pop(kw, names[3])>>

\* r, theta, phi of a returned position
PositionOf(v) == <<v["r"], v["theta"], v["phi"]>>

KnownNames == {"r", "theta", "phi", "x", "y", "z", "height", "latitude", "longitude"}

\* C28: with several triples given, convert_coordinates takes r, theta, phi from
\* the complete Cartesian triple if there is one, else from the complete
\* geodetic triple, else from the spherical triple; the result holds 'psi'
\* exactly when the geodetic triple was taken, and a keyword outside the nine
\* names changes nothing.
C28_TriplePrecedence ==
    (/\ result.op = "convert_coordinates"
     /\ result.args.spherical /\ ~result.args.cartesian
     /\ ~NoCompleteTriple(result.args.kw)) =>
        LET kw == result.args.kw
            cart == TripleOf(kw, <<"x", "y", "z">>)
            geog == TripleOf(kw, <<"height", "latitude", "longitude">>)
            spher == TripleOf(kw, <<"r", "theta", "phi">>)
            known == [k \in DOMAIN kw \cap KnownNames |-> kw[k]]
        IN  /\ result.status = "ok"
            /\ Complete(cart) =>
                  PositionOf(result.value)
                    = PositionOf(CartToSph(cart[1][1], cart[2][1], cart[3][1]))
            /\ (~Complete(cart) /\ Complete(geog)) =>
                  PositionOf(result.value)
                    = PositionOf(GeogToSph(geog[1][1], geog[2][1], geog[3][1]))
            /\ (~Complete(cart) /\ ~Complete(geog)) =>
                  PositionOf(result.value) = <<spher[1][1], spher[2][1], spher[3][1]>>
            /\ ("psi" \in DOMAIN result.value) <=> (~Complete(cart) /\ Complete(geog))
            /\ result.value = ConvertCoordinates(known, TRUE, FALSE, FALSE).value

\* all three triples given: the pole of the Cartesian triple is returned, not
\* the equator of the spherical triple nor the geodetic position, and no psi
C28_Witness ==
    /\ result.op = "convert_coordinates" /\ result.status = "ok"
    /\ result.args.kw = SpherAtEquator @@ CartAtPole @@ GeogMid
    /\ PositionOf(result.value) = <<Re, 0, 0>>
    /\ "psi" \notin DOMAIN result.value


\* C29: a result of spherical(), geographic() or cartesian() holds 'field',
\* 'position' and '_' when metadata is true and 'field' alone when it is false.
C29_MetadataFlag ==
    (result.op \in {"spherical", "geographic", "cartesian"} /\ result.status = "ok") =>
        DOMAIN result.value = IF result.args.metadata
                              THEN {"field", "position", "_"}
                              ELSE {"field"}

\* C30: fdi() with a complete spherical, Cartesian or geodetic triple returns,
\* and what it returns holds 'field', 'horizontal', 'declination' and
\* 'inclination' among the field entries.
C30_FdiCompletes ==
    (result.op = "fdi" /\ ~NoCompleteTriple(result.args.kw)) =>
        /\ result.status = "ok"
        /\ result.value # None
        /\ {"field", "horizontal", "declination", "inclination"}
              \subseteq DOMAIN result.value[1]["field"]

=============================================================================
